---------------------------- MODULE Spec2Model ----------------------------
(***************************************************************************)
(* A model of ngp (ncurses grep), src/ngp.c: the walker (lookup_thread),   *)
(* the two workers (worker_thread), the consumer (save_thread), the result *)
(* store of the root search, and the UI loop of main with its subsearches. *)
(*                                                                         *)
(* Bytes are integers 0..255 (10 is '\n', 0 is NUL); a mapped file and a   *)
(* malloc'ed string are sequences of bytes, addressed from offset 0 as in  *)
(* C.  A string buffer holds its terminator when the code wrote one.       *)
(***************************************************************************)
EXTENDS Integers, Sequences, FiniteSets, TLC

(***************************************************************************)
(* Program constants                                                       *)
(***************************************************************************)
NL == 10
LINE_MAX == 256
INIT_SIZE == 100
MAIN_GROW == 500
SUB_GROW == 100

(***************************************************************************)
(* Bounds of the model                                                     *)
(***************************************************************************)
MaxFiles == 2      \* entries the walker reaches in Spec
MaxAlloc == 1      \* subsearch contexts allocated in one run of Spec
MaxScanLen == 5    \* bytes of a short file in SpecScan
MaxOver == 1       \* bytes beyond LINE_MAX of the longest line in SpecScan
MaxSubDepth == 2   \* subsearch contexts allocated in one run of SpecSub
MaxArgs == 3       \* -t and -o options on a command line of SpecArgs
LINES == 3         \* rows of the terminal (the ncurses global)
MaxLineLen == 4    \* bytes of the line searched in SpecMatch
MaxPatLen == 2     \* bytes of the pattern of SpecMatch

(***************************************************************************)
(* C memory and strings                                                    *)
(***************************************************************************)
\* the byte at offset i of m; a private mapping is zero-filled after the
\* file's last byte up to the end of its page, a buffer read is given the
\* bytes that follow it by the caller
MemAt(m, i) == IF i < Len(m) THEN m[i + 1] ELSE 0

\* (signed char) c
SChar(c) == IF c >= 128 THEN c - 256 ELSE c

\* strchr(m + p, c) for c # 0: offset of the first c at or after p, before
\* any NUL; -1 for NULL
Strchr(m, p, c) ==
    IF \E i \in p..(Len(m) - 1) :
          m[i + 1] = c /\ \A j \in p..(i - 1) : m[j + 1] \notin {c, 0}
    THEN CHOOSE i \in p..(Len(m) - 1) :
            m[i + 1] = c /\ \A j \in p..(i - 1) : m[j + 1] \notin {c, 0}
    ELSE -1

\* strlen(m + p)
Strlen(m, p) ==
    IF p >= Len(m) THEN 0
    ELSE (CHOOSE i \in p..Len(m) :
             MemAt(m, i) = 0 /\ \A j \in p..(i - 1) : m[j + 1] # 0) - p

\* the bytes of the C string at m + p, terminator excluded
CStr(m, p) == [k \in 1..Strlen(m, p) |-> MemAt(m, p + k - 1)]

\* strncpy(dst, m + p, n): n bytes, zero-padded after the source's NUL
Strncpy(m, p, n) ==
    LET l == Strlen(m, p)
    IN  [k \in 1..n |-> IF k - 1 < l THEN MemAt(m, p + k - 1) ELSE 0]

\* strdup(s) of a string given by its bytes
Strdup(s) == s \o <<0>>

\* strstr(text, pat) # NULL on byte strings without terminator
Contains(text, pat) ==
    \E s \in 0..(Len(text) - Len(pat)) :
        \A k \in 1..Len(pat) : text[s + k] = pat[k]

\* tolower(c) in the C locale
ToLower(c) == IF c >= 65 /\ c <= 90 THEN c + 32 ELSE c

(***************************************************************************)
(* Matchers                                                                *)
(***************************************************************************)
\* strstr_wrapper(line, pattern, siz)
strstr_wrapper(m, p, pat, tsize) == Contains(CStr(m, p), pat)

\* strcasestr_wrapper(line, pattern, siz)
strcasestr_wrapper(m, p, pat, tsize) ==
    LET text == CStr(m, p)
    IN  Contains([k \in 1..Len(text) |-> ToLower(text[k])],
                 [k \in 1..Len(pat) |-> ToLower(pat[k])])

\* skipt[] as pre_bmh fills it
skipt(pat) ==
    LET psize == Len(pat)
        occ(c) == {i \in 0..(psize - 2) : pat[i + 1] = c}
    IN  [c \in 0..255 |->
            IF occ(c) = {} THEN psize
            ELSE psize - (CHOOSE i \in occ(c) : \A j \in occ(c) : j <= i) - 1]

RECURSIVE BmhSkipHigh(_, _, _, _)
\* while (text[i + psize - 1] < 0) i += psize;
BmhSkipHigh(m, p, psize, i) ==
    IF SChar(MemAt(m, p + i + psize - 1)) < 0
    THEN BmhSkipHigh(m, p, psize, i + psize)
    ELSE i

RECURSIVE BmhLoop(_, _, _, _, _)
BmhLoop(m, p, pat, tsize, i) ==
    LET psize == Len(pat)
        last == MemAt(m, p + i + psize - 1)
    IN  IF i > tsize - psize THEN FALSE
        ELSE IF /\ last = pat[psize]
                /\ MemAt(m, p + i) = pat[1]
                /\ \A k \in 1..(psize - 2) : MemAt(m, p + i + k) = pat[k + 1]
             THEN TRUE
        ELSE IF SChar(last) > 0
             THEN BmhLoop(m, p, pat, tsize, i + skipt(pat)[last])
        ELSE IF SChar(last) < 0
             THEN BmhLoop(m, p, pat, tsize, BmhSkipHigh(m, p, psize, i))
        ELSE FALSE  \* a NUL inside the line: the C loop never advances

\* bmh(text, pattern, tsize) # NULL
bmh(m, p, pat, tsize) == BmhLoop(m, p, pat, tsize, 0)

RECURSIVE RkHash(_, _, _, _)
\* for (h = i = 0; i < n; i++) h = (h << 1) + text[i];
RkHash(m, p, n, k) ==
    IF k = 0 THEN 0
    ELSE 2 * RkHash(m, p, n, k - 1) + SChar(MemAt(m, p + k - 1))

RECURSIVE RkLoop(_, _, _, _, _, _)
RkLoop(m, p, pat, tsize, i, ht) ==
    LET psize == Len(pat)
        d == 2 ^ (psize - 1)
        hp == RkHash(pat, 0, psize, psize)
    IN  IF i > tsize - psize THEN FALSE
        ELSE IF ht = hp /\ \A k \in 1..psize : MemAt(m, p + i + k - 1) = pat[k]
             THEN TRUE
        ELSE RkLoop(m, p, pat, tsize, i + 1,
                    2 * (ht - SChar(MemAt(m, p + i)) * d)
                      + SChar(MemAt(m, p + i + psize)))

\* rabin_karp(text, pattern, tsize) # NULL
rabin_karp(m, p, pat, tsize) ==
    RkLoop(m, p, pat, tsize, 0, RkHash(m, p, Len(pat), Len(pat)))

(***************************************************************************)
(* regcomp(re, pattern, 0) and regexec(re, line, 0, NULL, 0): POSIX basic  *)
(* regular expressions restricted to ordinary characters, '.', '*', a      *)
(* leading '^' and a trailing '$'.  A '[' opens a bracket expression and   *)
(* a pattern that never closes it does not compile; '\' is not modelled.   *)
(***************************************************************************)
RegcompOk(pat) ==
    \A i \in 1..Len(pat) :
        pat[i] = 91 => \E j \in (i + 2)..Len(pat) : pat[j] = 93

RECURSIVE MatchHere(_, _, _, _)
RECURSIVE MatchStar(_, _, _, _, _)
\* does re[i..] match a prefix of text[j..] (1-based positions)
MatchHere(re, i, text, j) ==
    IF i > Len(re) THEN TRUE
    ELSE IF i + 1 <= Len(re) /\ re[i + 1] = 42
         THEN MatchStar(re[i], re, i + 2, text, j)
    ELSE IF re[i] = 36 /\ i = Len(re) THEN j > Len(text)
    ELSE IF j <= Len(text) /\ (re[i] = 46 \/ re[i] = text[j])
         THEN MatchHere(re, i + 1, text, j + 1)
    ELSE FALSE

\* c* followed by re[i..]
MatchStar(c, re, i, text, j) ==
    \/ MatchHere(re, i, text, j)
    \/ /\ j <= Len(text)
       /\ (c = 46 \/ c = text[j])
       /\ MatchStar(c, re, i, text, j + 1)

\* regexec(...) # REG_NOMATCH for the compiled pattern re on a byte string
Regexec(re, text) ==
    IF Len(re) >= 1 /\ re[1] = 94
    THEN MatchHere(SubSeq(re, 2, Len(re)), 1, text, 1)
    ELSE \E j \in 1..(Len(text) + 1) : MatchHere(re, 1, text, j)

(***************************************************************************)
(* State                                                                   *)
(***************************************************************************)
VARIABLES
    tree,                \* the non-directory entries lookup_directory reaches,
                         \* in readdir order: [name, bytes, ok, symlink]
    root_isfile,         \* isfile(d->directory): the root path is a file
    mainsearch_attr,     \* [raw, is_insensitive, follow_symlinks, firstspec,
                         \*  firstext]
    heap,                \* the struct search objects; heap[1] is *mainsearch
    current,             \* index in heap of *current
    data_mutex,          \* holder of mainsearch->data_mutex
    new_file_signal,     \* sem_t values
    is_data_for_worker,
    worker_data_treated,
    filep,               \* struct filep, start being the mapped bytes
    worker_res,          \* the two result lists
    lookup_pc, lookup_i, \* lookup_thread: position, index of the entry at hand
    worker_pc,           \* worker_thread 0 and 1
    save_pc, save_res,   \* save_thread: position, its local list pointer res
    ui_pc, exit_code,    \* main's loop; the process' exit status
    published,           \* history: indices of tree for which parse_file returned 0
    nmerged,             \* history: files save_thread has finished
    budget,              \* subsearch contexts the run may still allocate
    command,             \* open_entry: the last command given to system(), if any
    argv, optind         \* get_args: the options [opt, arg], the next one's index

vars == <<tree, root_isfile, mainsearch_attr, heap, current, data_mutex,
          new_file_signal, is_data_for_worker, worker_data_treated, filep,
          worker_res, lookup_pc, lookup_i, worker_pc, save_pc, save_res,
          ui_pc, exit_code, published, nmerged, budget, command, argv,
          optind>>

pipe_vars == <<new_file_signal, is_data_for_worker, worker_data_treated, filep,
               worker_res, lookup_pc, lookup_i, worker_pc, save_pc, save_res,
               published, nmerged>>

mainsearch == heap[1]

\* the process is alive (exit() has not been called)
Running == ui_pc # "exited"

(***************************************************************************)
(* struct search                                                           *)
(***************************************************************************)
\* malloc(sizeof(struct search)): the fields the code has not written yet
\* are given fixed values
MallocSearch ==
    [index |-> 0, cursor |-> 0, entries |-> << >>, nbentry |-> 0,
     nb_lines |-> 0, size |-> 0, status |-> 0, parser |-> "none",
     pattern |-> << >>, is_regex |-> 0, regex |-> << >>,
     father |-> 0, child |-> 0]

init_searchstruct(s) ==
    [s EXCEPT !.index = 0, !.cursor = 0, !.size = INIT_SIZE, !.nbentry = 0,
              !.nb_lines = 0, !.status = 1, !.is_regex = 0,
              !.father = 0, !.child = 0]

\* the parser pre_bmh leaves in mainsearch->parser
pre_bmh(pat) ==
    IF \E i \in 1..(Len(pat) - 1) : SChar(pat[i]) < 0 THEN "rabin_karp"
    ELSE IF Len(pat) = 1 THEN "strstr_wrapper"
    ELSE "bmh"

\* main: the root search once the arguments are parsed and entries calloc'ed
MainSearch(pat, is_regex, is_insensitive) ==
    [init_searchstruct(MallocSearch) EXCEPT
        !.pattern = pat,
        !.is_regex = is_regex,
        !.regex = IF is_regex = 1 THEN pat ELSE << >>,
        !.parser = IF is_regex = 1 THEN "regex"
                   ELSE IF is_insensitive = 0 THEN pre_bmh(pat)
                   ELSE "strcasestr_wrapper"]

\* regex() with the test of regexec's result inverted
regex_inverted(cur, m, p) == ~Regexec(cur.regex, CStr(m, p))

\* regex(line, pattern, size) # NULL: the line is matched against
\* current->regex, cur being *current
regex(cur, m, p) == Regexec(cur.regex, CStr(m, p))

\* mainsearch->parser(p, mainsearch->pattern, endline - p) # NULL, main
\* being *mainsearch and cur being *current
Parser(main, cur, m, p, tsize) ==
    LET kind == main.parser
        pat == main.pattern
    IN  CASE kind = "bmh" -> bmh(m, p, pat, tsize)
          [] kind = "strstr_wrapper" -> strstr_wrapper(m, p, pat, tsize)
          [] kind = "rabin_karp" -> rabin_karp(m, p, pat, tsize)
          [] kind = "strcasestr_wrapper" -> strcasestr_wrapper(m, p, pat, tsize)
          [] kind = "regex" -> regex(cur, m, p)

is_file(i, s) == s.entries[i + 1].line = 0

(***************************************************************************)
(* parse_file and worker_thread on one mapped file                         *)
(***************************************************************************)
\* filep.mid as parse_file sets it for the mapped bytes m
MidOf(m) ==
    LET mid_newline == Strchr(m, Len(m) \div 2, NL)
    IN  IF mid_newline = -1 THEN Len(m) - 1 ELSE mid_newline + 1

\* the worker's copy of a matching line that starts at p and ends at endline
LineCopy(m, p, endline) ==
    LET line_size == IF endline - p + 1 >= LINE_MAX THEN LINE_MAX
                     ELSE endline - p + 1
    IN  Strncpy(m, p, line_size)

RECURSIVE ScanLoop(_, _, _, _, _, _, _)
\* the while loop of worker_thread from p with line_count and the list res
ScanLoop(main, cur, m, p, end, line_count, res) ==
    IF p < end /\ Strchr(m, p, NL) # -1
    THEN LET endline == Strchr(m, p, NL)
             m2 == [m EXCEPT ![endline + 1] = 0]
             res2 == IF Parser(main, cur, m2, p, endline - p)
                     THEN Append(res, [line |-> LineCopy(m2, p, endline),
                                       index |-> line_count])
                     ELSE res
         IN  ScanLoop(main, cur, m2, endline + 1, end, line_count + 1, res2)
    ELSE [mem |-> m, res |-> res, line_count |-> line_count]

WorkerStart(tnum) == IF tnum = 1 THEN filep.mid ELSE 0
WorkerEnd(tnum) == IF tnum = 1 THEN filep.size ELSE filep.mid - 1

(***************************************************************************)
(* get_args: the options -t and -o                                         *)
(***************************************************************************)
\* the string later read from tmpext->ext after
\* strncpy(tmpext->ext, optarg, LINE_MAX): optarg when it is shorter than
\* LINE_MAX, else its first LINE_MAX bytes and the bytes that follow the
\* array up to a NUL
ExtOf(optarg, junk) ==
    LET ext == Strncpy(Strdup(optarg), 0, LINE_MAX)
    IN  IF \E k \in 1..LINE_MAX : ext[k] = 0 THEN CStr(ext, 0) ELSE ext \o junk

\* one turn of the getopt loop on -o or -t: case 'o' empties both lists and
\* falls through to case 't', which adds a node after the last one
GetArgsOption(junk) ==
    /\ optind <= Len(argv)
    /\ LET o == argv[optind]
           emptied == IF o.opt = "o"
                      THEN [mainsearch_attr EXCEPT !.firstext = << >>,
                                                   !.firstspec = << >>]
                      ELSE mainsearch_attr
       IN  mainsearch_attr' =
               [emptied EXCEPT !.firstext = Append(@, ExtOf(o.arg, junk))]
    /\ optind' = optind + 1
    /\ UNCHANGED <<tree, command, argv, root_isfile, heap, current, data_mutex,
                   pipe_vars, ui_pc, exit_code, budget>>

(***************************************************************************)
(* Eligibility (lookup_file)                                               *)
(***************************************************************************)
\* is_specific_file, comparing the end of the basename only
is_specific_file_Suffix(name) ==
    \E k \in 1..Len(mainsearch_attr.firstspec) :
        LET spec == mainsearch_attr.firstspec[k]
        IN  /\ Len(spec) <= Len(name)
            /\ SubSeq(name, Len(name) - Len(spec) + 1, Len(name)) = spec

\* is_specific_file(name)
is_specific_file(name) ==
    LET slashes == {i \in 1..Len(name) : name[i] = 47}
        name_begins == IF slashes = {} THEN name
                       ELSE SubSeq(name,
                                   (CHOOSE i \in slashes : \A j \in slashes : j <= i) + 1,
                                   Len(name))
    IN  \E k \in 1..Len(mainsearch_attr.firstspec) :
            mainsearch_attr.firstspec[k] = name_begins

\* the extension loop of lookup_file; for an extension longer than the
\* path strcmp starts before the path, and finds a difference unless the
\* extension ends with the whole path, which no extension of the model does
MatchesExtension(name) ==
    \E k \in 1..Len(mainsearch_attr.firstext) :
        LET ext == mainsearch_attr.firstext[k]
        IN  /\ Len(ext) <= Len(name)
            /\ SubSeq(name, Len(name) - Len(ext) + 1, Len(name)) = ext

\* lookup_file calls parse_file
Eligible(name) ==
    \/ mainsearch_attr.raw = 1
    \/ is_specific_file(name)
    \/ MatchesExtension(name)

\* lookup_directory calls lookup_file on entry f, and lookup_file parse_file
Handed(f) ==
    /\ ~f.symlink \/ mainsearch_attr.follow_symlinks = 1
    /\ Eligible(f.name)

(***************************************************************************)
(* lookup_thread: lookup_directory, lookup_file, parse_file                *)
(***************************************************************************)
\* the entry is a symlink not to follow, or lookup_file finds it not
\* eligible and returns
LookupSkip ==
    /\ Running /\ lookup_pc = "walk" /\ lookup_i <= Len(tree)
    /\ ~root_isfile /\ ~Handed(tree[lookup_i])
    /\ lookup_i' = lookup_i + 1
    /\ UNCHANGED <<tree, command, argv, optind,
                   root_isfile, mainsearch_attr, heap, current, data_mutex,
                   new_file_signal, is_data_for_worker, worker_data_treated,
                   filep, worker_res, lookup_pc, worker_pc, save_pc, save_res,
                   ui_pc, exit_code, published, nmerged, budget>>

\* lookup_file: synchronized(mainsearch->data_mutex) is entered
LookupLock ==
    /\ Running /\ lookup_pc = "walk" /\ lookup_i <= Len(tree)
    /\ ~root_isfile /\ Handed(tree[lookup_i])
    /\ data_mutex = "none"
    /\ data_mutex' = "lookup"
    /\ lookup_pc' = "parse"
    /\ UNCHANGED <<tree, command, argv, optind,
                   root_isfile, mainsearch_attr, heap, current,
                   new_file_signal, is_data_for_worker, worker_data_treated,
                   filep, worker_res, lookup_i, worker_pc, save_pc, save_res,
                   ui_pc, exit_code, published, nmerged, budget>>

\* lookup_thread: the root path is a file, parse_file is called directly
LookupRootFile ==
    /\ Running /\ lookup_pc = "walk" /\ lookup_i <= Len(tree)
    /\ root_isfile
    /\ lookup_pc' = "parse"
    /\ UNCHANGED <<tree, command, argv, optind,
                   root_isfile, mainsearch_attr, heap, current, data_mutex,
                   new_file_signal, is_data_for_worker, worker_data_treated,
                   filep, worker_res, lookup_i, worker_pc, save_pc, save_res,
                   ui_pc, exit_code, published, nmerged, budget>>

\* parse_file: open, fstat or mmap fails, or the file is empty
ParseFails(f) == ~f.ok \/ Len(f.bytes) = 0

\* parse_file's error return without its sem_post(&new_file_signal)
ParseFileError_NoPost ==
    /\ Running /\ lookup_pc = "parse"
    /\ new_file_signal > 0
    /\ ParseFails(tree[lookup_i])
    /\ new_file_signal' = new_file_signal - 1
    /\ lookup_pc' = "ret"
    /\ UNCHANGED <<tree, command, argv, optind,
                   root_isfile, mainsearch_attr, heap, current, data_mutex,
                   is_data_for_worker, worker_data_treated,
                   filep, worker_res, lookup_i, worker_pc, save_pc, save_res,
                   ui_pc, exit_code, published, nmerged, budget>>

\* parse_file: sem_wait, then the error return with its sem_post
ParseFileError ==
    /\ Running /\ lookup_pc = "parse"
    /\ new_file_signal > 0
    /\ ParseFails(tree[lookup_i])
    /\ lookup_pc' = "ret"
    /\ UNCHANGED <<tree, command, argv, optind,
                   root_isfile, mainsearch_attr, heap, current, data_mutex,
                   new_file_signal, is_data_for_worker, worker_data_treated,
                   filep, worker_res, lookup_i, worker_pc, save_pc, save_res,
                   ui_pc, exit_code, published, nmerged, budget>>

\* parse_file: sem_wait, mmap, the current-file record is filled, and
\* sem_post(&is_data_for_worker[0])
\* parse_file without its sem_wait(&new_file_signal)
ParseFileMap_NoWait ==
    /\ Running /\ lookup_pc = "parse"
    /\ ~ParseFails(tree[lookup_i])
    /\ filep' = [filep EXCEPT !.name = Strdup(tree[lookup_i].name),
                              !.size = Len(tree[lookup_i].bytes),
                              !.start = tree[lookup_i].bytes,
                              !.mid = MidOf(tree[lookup_i].bytes)]
    /\ is_data_for_worker' = [is_data_for_worker EXCEPT ![0] = @ + 1]
    /\ lookup_pc' = "post1"
    /\ UNCHANGED <<tree, command, argv, optind,
                   root_isfile, mainsearch_attr, heap, current, data_mutex,
                   new_file_signal, worker_data_treated,
                   worker_res, lookup_i, worker_pc, save_pc, save_res,
                   ui_pc, exit_code, published, nmerged, budget>>

\* parse_file, a file that maps: sem_wait(&new_file_signal), filep filled,
\* sem_post(&is_data_for_worker[0])
ParseFileMap ==
    /\ Running /\ lookup_pc = "parse"
    /\ new_file_signal > 0
    /\ ~ParseFails(tree[lookup_i])
    /\ new_file_signal' = new_file_signal - 1
    /\ filep' = [filep EXCEPT !.name = Strdup(tree[lookup_i].name),
                              !.size = Len(tree[lookup_i].bytes),
                              !.start = tree[lookup_i].bytes,
                              !.mid = MidOf(tree[lookup_i].bytes)]
    /\ is_data_for_worker' = [is_data_for_worker EXCEPT ![0] = @ + 1]
    /\ lookup_pc' = "post1"
    /\ UNCHANGED <<tree, command, argv, optind,
                   root_isfile, mainsearch_attr, heap, current, data_mutex,
                   worker_data_treated,
                   worker_res, lookup_i, worker_pc, save_pc, save_res,
                   ui_pc, exit_code, published, nmerged, budget>>

\* parse_file: sem_post(&is_data_for_worker[1]); return 0
ParseFilePost1 ==
    /\ Running /\ lookup_pc = "post1"
    /\ is_data_for_worker' = [is_data_for_worker EXCEPT ![1] = @ + 1]
    /\ published' = Append(published, lookup_i)
    /\ lookup_pc' = "ret"
    /\ UNCHANGED <<tree, command, argv, optind,
                   root_isfile, mainsearch_attr, heap, current, data_mutex,
                   new_file_signal, worker_data_treated,
                   filep, worker_res, lookup_i, worker_pc, save_pc, save_res,
                   ui_pc, exit_code, nmerged, budget>>

\* parse_file has returned: the synchronized block (if any) is left
LookupUnlock ==
    /\ Running /\ lookup_pc = "ret"
    /\ data_mutex' = IF data_mutex = "lookup" THEN "none" ELSE data_mutex
    /\ lookup_i' = lookup_i + 1
    /\ lookup_pc' = "walk"
    /\ UNCHANGED <<tree, command, argv, optind,
                   root_isfile, mainsearch_attr, heap, current,
                   new_file_signal, is_data_for_worker, worker_data_treated,
                   filep, worker_res, worker_pc, save_pc, save_res,
                   ui_pc, exit_code, published, nmerged, budget>>

\* lookup_thread: d->status = 0; return
LookupDone ==
    /\ Running /\ lookup_pc = "walk" /\ lookup_i > Len(tree)
    /\ heap' = [heap EXCEPT ![1].status = 0]
    /\ lookup_pc' = "done"
    /\ UNCHANGED <<tree, command, argv, optind,
                   root_isfile, mainsearch_attr, current, data_mutex,
                   new_file_signal, is_data_for_worker, worker_data_treated,
                   filep, worker_res, lookup_i, worker_pc, save_pc, save_res,
                   ui_pc, exit_code, published, nmerged, budget>>

(***************************************************************************)
(* worker_thread                                                           *)
(***************************************************************************)
\* top of the loop: if (!mainsearch->status) return
WorkerCheck(tnum) ==
    /\ Running /\ worker_pc[tnum] = "check"
    /\ worker_pc' = [worker_pc EXCEPT
                        ![tnum] = IF mainsearch.status = 0 THEN "exit" ELSE "wait"]
    /\ UNCHANGED <<tree, command, argv, optind,
                   root_isfile, mainsearch_attr, heap, current, data_mutex,
                   new_file_signal, is_data_for_worker, worker_data_treated,
                   filep, worker_res, lookup_pc, lookup_i, save_pc, save_res,
                   ui_pc, exit_code, published, nmerged, budget>>

\* sem_wait(&is_data_for_worker[*tnum])
WorkerWait(tnum) ==
    /\ Running /\ worker_pc[tnum] = "wait"
    /\ is_data_for_worker[tnum] > 0
    /\ is_data_for_worker' = [is_data_for_worker EXCEPT ![tnum] = @ - 1]
    /\ worker_pc' = [worker_pc EXCEPT ![tnum] = "scan"]
    /\ UNCHANGED <<tree, command, argv, optind,
                   root_isfile, mainsearch_attr, heap, current, data_mutex,
                   new_file_signal, worker_data_treated,
                   filep, worker_res, lookup_pc, lookup_i, save_pc, save_res,
                   ui_pc, exit_code, published, nmerged, budget>>

\* the scan of the worker's half, filep.midline for worker 0, and
\* sem_post(&worker_data_treated[*tnum])
WorkerScan(tnum) ==
    /\ Running /\ worker_pc[tnum] = "scan"
    /\ LET r == ScanLoop(mainsearch, heap[current], filep.start,
                       WorkerStart(tnum), WorkerEnd(tnum), 1, << >>)
       IN  /\ worker_res' = [worker_res EXCEPT
                                ![tnum] = IF r.res # << >> THEN r.res ELSE @]
           /\ filep' = [filep EXCEPT
                           !.start = r.mem,
                           !.midline = IF tnum = 0 THEN r.line_count - 1 ELSE @]
    /\ worker_data_treated' = [worker_data_treated EXCEPT ![tnum] = @ + 1]
    /\ worker_pc' = [worker_pc EXCEPT ![tnum] = "check"]
    /\ UNCHANGED <<tree, command, argv, optind,
                   root_isfile, mainsearch_attr, heap, current, data_mutex,
                   new_file_signal, is_data_for_worker,
                   lookup_pc, lookup_i, save_pc, save_res,
                   ui_pc, exit_code, published, nmerged, budget>>

(***************************************************************************)
(* The result store of the root search                                     *)
(***************************************************************************)
check_alloc(toinc, size) ==
    IF toinc.nbentry >= toinc.size
    THEN [toinc EXCEPT !.size = @ + size]
    ELSE toinc

mainsearch_add_file(s, file) ==
    LET a == check_alloc(s, MAIN_GROW)
    IN  [a EXCEPT !.entries = Append(@, [data |-> file, line |-> 0]),
                  !.nbentry = @ + 1]

\* mainsearch_add_line without mainsearch->nb_lines++
mainsearch_add_line_NoCount(s, line, line_nb) ==
    LET a == check_alloc(s, MAIN_GROW)
    IN  [a EXCEPT !.entries = Append(@, [data |-> line, line |-> line_nb]),
                  !.nbentry = @ + 1]

mainsearch_add_line(s, line, line_nb) ==
    LET a == check_alloc(s, MAIN_GROW)
    IN  [a EXCEPT !.entries = Append(@, [data |-> line, line |-> line_nb]),
                  !.nbentry = @ + 1,
                  !.nb_lines = @ + 1]

(***************************************************************************)
(* save_thread                                                             *)
(***************************************************************************)
\* top of the loop: if (!mainsearch->status) return
SaveCheck ==
    /\ Running /\ save_pc = "check"
    /\ save_pc' = IF mainsearch.status = 0 THEN "exit" ELSE "wait0"
    /\ UNCHANGED <<tree, command, argv, optind,
                   root_isfile, mainsearch_attr, heap, current, data_mutex,
                   new_file_signal, is_data_for_worker, worker_data_treated,
                   filep, worker_res, lookup_pc, lookup_i, worker_pc, save_res,
                   ui_pc, exit_code, published, nmerged, budget>>

\* save_thread waiting for worker 0 only
SaveWait_OnlyWorker0(tnum) ==
    /\ Running /\ save_pc = (IF tnum = 0 THEN "wait0" ELSE "wait1")
    /\ tnum = 0 => worker_data_treated[tnum] > 0
    /\ worker_data_treated' =
           IF tnum = 0 THEN [worker_data_treated EXCEPT ![tnum] = @ - 1]
           ELSE worker_data_treated
    /\ save_pc' = IF tnum = 0 THEN "wait1" ELSE "file"
    /\ UNCHANGED <<tree, command, argv, optind,
                   root_isfile, mainsearch_attr, heap,
                   current, data_mutex, new_file_signal, is_data_for_worker,
                   filep, worker_res, lookup_pc, lookup_i, worker_pc, save_res,
                   ui_pc, exit_code, published, nmerged, budget>>

\* sem_wait(&worker_data_treated[0]), then sem_wait(&worker_data_treated[1])
SaveWait(tnum) ==
    /\ Running /\ save_pc = (IF tnum = 0 THEN "wait0" ELSE "wait1")
    /\ worker_data_treated[tnum] > 0
    /\ worker_data_treated' = [worker_data_treated EXCEPT ![tnum] = @ - 1]
    /\ save_pc' = IF tnum = 0 THEN "wait1" ELSE "file"
    /\ UNCHANGED <<tree, command, argv, optind,
                   root_isfile, mainsearch_attr, heap, current, data_mutex,
                   new_file_signal, is_data_for_worker,
                   filep, worker_res, lookup_pc, lookup_i, worker_pc, save_res,
                   ui_pc, exit_code, published, nmerged, budget>>

\* save_thread's position once worker 0's list has rest left to add: an
\* exhausted list leads to res = worker_res[1]
AfterFirstList(rest) ==
    IF rest # << >> THEN [pc |-> "lines0", res |-> rest]
    ELSE [pc |-> "lines1", res |-> worker_res[1]]

\* the header is added if a worker found something, else the name is freed
SaveAddFile ==
    /\ Running /\ save_pc = "file"
    /\ heap' = IF worker_res[0] # << >> \/ worker_res[1] # << >>
               THEN [heap EXCEPT ![1] = mainsearch_add_file(@, filep.name)]
               ELSE heap
    /\ save_res' = AfterFirstList(worker_res[0]).res
    /\ save_pc' = AfterFirstList(worker_res[0]).pc
    /\ UNCHANGED <<tree, command, argv, optind,
                   root_isfile, mainsearch_attr, current, data_mutex,
                   new_file_signal, is_data_for_worker, worker_data_treated,
                   filep, worker_res, lookup_pc, lookup_i, worker_pc,
                   ui_pc, exit_code, published, nmerged, budget>>

\* the second loop adding res->index without filep.midline
SaveAddLine_NoMidline ==
    /\ Running /\ save_pc \in {"lines0", "lines1"}
    /\ save_res # << >>
    /\ heap' = [heap EXCEPT ![1] =
                   mainsearch_add_line(@, Head(save_res).line, Head(save_res).index)]
    /\ IF save_pc = "lines0"
       THEN /\ save_res' = AfterFirstList(Tail(save_res)).res
            /\ save_pc' = AfterFirstList(Tail(save_res)).pc
       ELSE /\ save_res' = Tail(save_res)
            /\ save_pc' = save_pc
    /\ UNCHANGED <<tree, command, argv, optind,
                   root_isfile, mainsearch_attr, current, data_mutex,
                   new_file_signal, is_data_for_worker, worker_data_treated,
                   filep, worker_res, lookup_pc, lookup_i, worker_pc,
                   ui_pc, exit_code, published, nmerged, budget>>

\* one turn of a while (res) loop: worker 1's line numbers get filep.midline
SaveAddLine ==
    /\ Running /\ save_pc \in {"lines0", "lines1"}
    /\ save_res # << >>
    /\ heap' = [heap EXCEPT ![1] =
                   mainsearch_add_line(@, Head(save_res).line,
                       IF save_pc = "lines0" THEN Head(save_res).index
                       ELSE Head(save_res).index + filep.midline)]
    /\ IF save_pc = "lines0"
       THEN /\ save_res' = AfterFirstList(Tail(save_res)).res
            /\ save_pc' = AfterFirstList(Tail(save_res)).pc
       ELSE /\ save_res' = Tail(save_res)
            /\ save_pc' = save_pc
    /\ UNCHANGED <<tree, command, argv, optind,
                   root_isfile, mainsearch_attr, current, data_mutex,
                   new_file_signal, is_data_for_worker, worker_data_treated,
                   filep, worker_res, lookup_pc, lookup_i, worker_pc,
                   ui_pc, exit_code, published, nmerged, budget>>

\* the end of the loop body without worker_res[0] = worker_res[1] = NULL
SaveRelease_NoReset ==
    /\ Running /\ save_pc = "lines1"
    /\ save_res = << >>
    /\ filep' = [filep EXCEPT !.start = << >>]
    /\ new_file_signal' = new_file_signal + 1
    /\ nmerged' = nmerged + 1
    /\ save_pc' = "check"
    /\ UNCHANGED <<tree, command, argv, optind,
                   root_isfile, mainsearch_attr, heap, current, data_mutex,
                   is_data_for_worker, worker_data_treated, worker_res,
                   lookup_pc, lookup_i, worker_pc, save_res,
                   ui_pc, exit_code, published, budget>>

\* the end of the loop body resetting worker_res[0] only
SaveRelease_ResetsFirst ==
    /\ Running /\ save_pc = "lines1"
    /\ save_res = << >>
    /\ worker_res' = [worker_res EXCEPT ![0] = << >>]
    /\ filep' = [filep EXCEPT !.start = << >>]
    /\ new_file_signal' = new_file_signal + 1
    /\ nmerged' = nmerged + 1
    /\ save_pc' = "check"
    /\ UNCHANGED <<tree, command, argv, optind,
                   root_isfile, mainsearch_attr, heap,
                   current, data_mutex, is_data_for_worker, worker_data_treated,
                   lookup_pc, lookup_i, worker_pc, save_res,
                   ui_pc, exit_code, published, budget>>

\* both lists reset, munmap, sem_post(&new_file_signal)
SaveRelease ==
    /\ Running /\ save_pc = "lines1"
    /\ save_res = << >>
    /\ worker_res' = [t \in {0, 1} |-> << >>]
    /\ filep' = [filep EXCEPT !.start = << >>]
    /\ new_file_signal' = new_file_signal + 1
    /\ nmerged' = nmerged + 1
    /\ save_pc' = "check"
    /\ UNCHANGED <<tree, command, argv, optind,
                   root_isfile, mainsearch_attr, heap, current, data_mutex,
                   is_data_for_worker, worker_data_treated,
                   lookup_pc, lookup_i, worker_pc, save_res,
                   ui_pc, exit_code, published, budget>>

(***************************************************************************)
(* subsearch and clean_search                                              *)
(***************************************************************************)
\* one turn of the for loop of subsearch on entry i of father, growing the
\* array only when nbentry % 100 is 99
SubsearchTurn_GrowAt99(father, i, child, orphan_file, new_data, junk) ==
    LET text == CStr(father.entries[i + 1].data \o junk, 0)
    IN  IF is_file(i, father)
        THEN [child |-> child, orphan_file |-> TRUE, new_data |-> Strdup(text)]
        ELSE IF regex(child, father.entries[i + 1].data \o junk, 0)
        THEN LET c1 == IF child.nbentry % 100 >= 99
                       THEN [child EXCEPT !.size = @ + SUB_GROW]
                       ELSE child
                 c2 == IF orphan_file
                       THEN [c1 EXCEPT
                               !.entries = Append(@, [data |-> new_data, line |-> 0]),
                               !.nbentry = @ + 1]
                       ELSE c1
                 c3 == [c2 EXCEPT
                           !.entries = Append(@, [data |-> Strdup(text),
                                                  line |-> father.entries[i + 1].line]),
                           !.nb_lines = @ + 1,
                           !.nbentry = @ + 1]
             IN  [child |-> c3, orphan_file |-> FALSE, new_data |-> new_data]
        ELSE [child |-> child, orphan_file |-> orphan_file, new_data |-> new_data]

\* one turn of the for loop of subsearch on entry i of father; a string of
\* the parent is read up to its NUL, junk being the bytes that follow its
\* buffer
SubsearchTurn(father, i, child, orphan_file, new_data, junk) ==
    LET text == CStr(father.entries[i + 1].data \o junk, 0)
    IN  IF is_file(i, father)
        THEN [child |-> child, orphan_file |-> TRUE, new_data |-> Strdup(text)]
        ELSE IF regex(child, father.entries[i + 1].data \o junk, 0)
        THEN LET c1 == IF child.nbentry % 100 >= 98
                       THEN [child EXCEPT !.size = @ + SUB_GROW]
                       ELSE child
                 c2 == IF orphan_file
                       THEN [c1 EXCEPT
                               !.entries = Append(@, [data |-> new_data, line |-> 0]),
                               !.nbentry = @ + 1]
                       ELSE c1
                 c3 == [c2 EXCEPT
                           !.entries = Append(@, [data |-> Strdup(text),
                                                  line |-> father.entries[i + 1].line]),
                           !.nb_lines = @ + 1,
                           !.nbentry = @ + 1]
             IN  [child |-> c3, orphan_file |-> FALSE, new_data |-> new_data]
        ELSE [child |-> child, orphan_file |-> orphan_file, new_data |-> new_data]

RECURSIVE SubsearchTurns(_, _, _, _, _)
\* the turns lo .. hi - 1 of the for loop of subsearch, t being the locals
\* child, orphan_file and new_data before turn lo
SubsearchTurns(father, lo, hi, t, junk) ==
    IF hi <= lo THEN t
    ELSE IF hi = lo + 1
    THEN SubsearchTurn(father, lo, t.child, t.orphan_file, t.new_data, junk)
    ELSE LET mid == (lo + hi) \div 2
             half == SubsearchTurns(father, lo, mid, t, junk)
         IN  \* the first half is computed before the second is entered
             IF half.orphan_file \in BOOLEAN
             THEN SubsearchTurns(father, mid, hi, half, junk)
             ELSE half

\* the for loop of subsearch from entry i of father
SubsearchLoop(father, i, child, orphan_file, new_data, junk) ==
    SubsearchTurns(father, i, father.nbentry,
                   [child |-> child, orphan_file |-> orphan_file,
                    new_data |-> new_data], junk).child

\* the child subsearch builds for the pattern typed in the window (valid regex)
SubsearchChild(father, father_idx, search, junk) ==
    LET child == [init_searchstruct(MallocSearch) EXCEPT
                     !.father = father_idx, !.pattern = search, !.regex = search]
        built == SubsearchLoop(father, 0, child, FALSE, << >>, junk)
    IN  [built EXCEPT !.size = built.nbentry]

\* what clean_search leaves of a struct search
Freed == [MallocSearch EXCEPT !.parser = "freed"]

(***************************************************************************)
(* main: the loop on getch()                                               *)
(***************************************************************************)
\* UiSubsearch, making the child the current search before its pattern is
\* compiled
UiSubsearch_CurrentFirst(search, junk) ==
    /\ ui_pc = "loop"
    /\ IF search = << >>
       THEN UNCHANGED <<heap, current, budget>>
       ELSE /\ budget > 0
            /\ budget' = budget - 1
            /\ LET linked == [heap EXCEPT ![current].child = Len(heap) + 1]
               IN  IF ~RegcompOk(search)
                   THEN /\ heap' = Append(linked,
                                     [init_searchstruct(MallocSearch) EXCEPT
                                         !.father = current, !.pattern = search])
                        /\ current' = Len(heap) + 1
                   ELSE /\ heap' = Append(linked,
                                     SubsearchChild(heap[current], current, search, junk))
                        /\ current' = Len(heap) + 1
    /\ ui_pc' = "status"
    /\ UNCHANGED <<tree, command, argv, optind,
                   root_isfile, mainsearch_attr, data_mutex, pipe_vars,
                   exit_code>>

\* case '/': tmp = subsearch(current); if (tmp != NULL) current = tmp;
UiSubsearch(search, junk) ==
    /\ ui_pc = "loop"
    /\ IF search = << >>
       THEN UNCHANGED <<heap, current, budget>>
       ELSE /\ budget > 0
            /\ budget' = budget - 1
            /\ LET linked == [heap EXCEPT ![current].child = Len(heap) + 1]
               IN  IF ~RegcompOk(search)
                   THEN /\ heap' = Append(linked,
                                     [init_searchstruct(MallocSearch) EXCEPT
                                         !.father = current, !.pattern = search])
                        /\ current' = current
                   ELSE /\ heap' = Append(linked,
                                     SubsearchChild(heap[current], current, search, junk))
                        /\ current' = Len(heap) + 1
    /\ ui_pc' = "status"
    /\ UNCHANGED <<tree, command, argv, optind,
                   root_isfile, mainsearch_attr, data_mutex, pipe_vars,
                   exit_code>>

\* the loop of clean_all: the contexts from c up to the root are cleaned,
\* and current is NULL (0) when the loop is left
RECURSIVE CleanLoop(_, _)
CleanLoop(h, c) ==
    IF c = 0 THEN [heap |-> h, current |-> 0]
    ELSE CleanLoop([h EXCEPT ![c] = Freed], h[c].father)

\* clean_all, called by exit_ngp at exit: the loop is entered only when the
\* current context has a father (next = current->father; while (next))
clean_all(h, cur) ==
    IF h[cur].father = 0 THEN [heap |-> h, current |-> cur]
    ELSE CleanLoop(h, cur)

\* case QUIT in a subsearch, with the father shown from its first entry
UiQuitChild_ResetView ==
    /\ ui_pc = "loop"
    /\ heap[current].father # 0
    /\ heap' = [heap EXCEPT ![current] = Freed,
                            ![heap[current].father].child = 0,
                            ![heap[current].father].index = 0,
                            ![heap[current].father].cursor = 0]
    /\ current' = heap[current].father
    /\ ui_pc' = "status"
    /\ UNCHANGED <<tree, command, argv, optind,
                   root_isfile, mainsearch_attr, data_mutex, pipe_vars,
                   exit_code, budget>>

\* UiQuitChild, returning to the main search whatever the depth
UiQuitChild_ToRoot ==
    /\ ui_pc = "loop"
    /\ heap[current].father # 0
    /\ heap' = [heap EXCEPT ![current] = Freed,
                            ![heap[current].father].child = 0]
    /\ current' = 1
    /\ ui_pc' = "status"
    /\ UNCHANGED <<tree, command, argv, optind,
                   root_isfile, mainsearch_attr, data_mutex, pipe_vars,
                   exit_code, budget>>

\* case QUIT in a subsearch: the child is cleaned, its father becomes current
UiQuitChild ==
    /\ ui_pc = "loop"
    /\ heap[current].father # 0
    /\ heap' = [heap EXCEPT ![current] = Freed,
                            ![heap[current].father].child = 0]
    /\ current' = heap[current].father
    /\ ui_pc' = "status"
    /\ UNCHANGED <<tree, command, argv, optind,
                   root_isfile, mainsearch_attr, data_mutex, pipe_vars,
                   exit_code, budget>>

\* case QUIT in the root search: exit(-1)
UiQuitRoot ==
    /\ ui_pc = "loop"
    /\ heap[current].father = 0
    /\ ui_pc' = "exited"
    /\ exit_code' = 255
    /\ UNCHANGED <<tree, command, argv, optind,
                   root_isfile, mainsearch_attr, heap, current, data_mutex,
                   pipe_vars, budget>>

\* after the switch (a key was handled, or getch() had none):
\* synchronized(mainsearch->data_mutex) { display_status(); } is entered
UiStatusLock ==
    /\ ui_pc \in {"loop", "status"}
    /\ data_mutex = "none"
    /\ data_mutex' = "ui"
    /\ ui_pc' = "display"
    /\ UNCHANGED <<tree, command, argv, optind,
                   root_isfile, mainsearch_attr, heap, current, pipe_vars,
                   exit_code, budget>>

\* display_status has read the store: the block is left
UiStatusUnlock ==
    /\ ui_pc = "display"
    /\ data_mutex' = "none"
    /\ ui_pc' = "check"
    /\ UNCHANGED <<tree, command, argv, optind,
                   root_isfile, mainsearch_attr, heap, current, pipe_vars,
                   exit_code, budget>>

\* synchronized(...) { if (status == 0 && nbentry == 0) exit(0); }
UiCheckEmpty ==
    /\ ui_pc = "check"
    /\ data_mutex = "none"
    /\ IF mainsearch.status = 0 /\ mainsearch.nbentry = 0
       THEN /\ ui_pc' = "exited"
            /\ exit_code' = 0
            /\ heap' = clean_all(heap, current).heap
            /\ current' = clean_all(heap, current).current
       ELSE /\ ui_pc' = "loop"
            /\ exit_code' = exit_code
            /\ UNCHANGED <<heap, current>>
    /\ UNCHANGED <<tree, command, argv, optind,
                   root_isfile, mainsearch_attr, data_mutex,
                   pipe_vars, budget>>

(***************************************************************************)
(* main: the navigation keys and Enter                                     *)
(***************************************************************************)
\* is_file(i, s) as the display code calls it, on any i: an entry beyond
\* nbentry is a calloc'ed one in the main store (line 0), and lies beyond
\* the realloc'ed array of a subsearch store, where oob is what is read
IsFileAt(i, s, oob) ==
    IF i >= 0 /\ i < s.nbentry THEN is_file(i, s)
    ELSE IF i >= 0 /\ s.father = 0 THEN TRUE ELSE oob

page_up(s, oob) ==
    LET c1 == IF s.index = 0 THEN 0 ELSE LINES - 1
        i1 == IF s.index - LINES < 0 THEN 0 ELSE s.index - LINES
        c2 == IF IsFileAt(i1 + c1, s, oob) /\ i1 # 0 THEN c1 - 1 ELSE c1
    IN  [s EXCEPT !.index = i1, !.cursor = c2]

page_down(s, oob) ==
    IF s.nbentry = 0 THEN s
    ELSE LET max_index == IF s.nbentry % LINES = 0
                          THEN s.nbentry - LINES
                          ELSE s.nbentry - (s.nbentry % LINES)
             c1 == IF s.index = max_index THEN (s.nbentry - 1) % LINES ELSE 0
             i1 == IF s.index + LINES > max_index THEN max_index
                   ELSE s.index + LINES
             c2 == IF IsFileAt(i1 + c1, s, oob) THEN c1 + 1 ELSE c1
         IN  [s EXCEPT !.index = i1, !.cursor = c2]

cursor_up(s, oob) ==
    IF s.cursor = 0 THEN page_up(s, oob)
    ELSE LET c1 == IF s.cursor > 0 THEN s.cursor - 1 ELSE s.cursor
             c2 == IF IsFileAt(s.index + c1, s, oob) THEN c1 - 1 ELSE c1
         IN  IF c2 < 0 THEN page_up([s EXCEPT !.cursor = c2], oob)
             ELSE [s EXCEPT !.cursor = c2]

cursor_down(s, oob) ==
    IF s.cursor = LINES - 1 THEN page_down(s, oob)
    ELSE LET c1 == IF s.cursor + s.index < s.nbentry - 1
                   THEN s.cursor + 1 ELSE s.cursor
             c2 == IF IsFileAt(s.index + c1, s, oob) THEN c1 + 1 ELSE c1
         IN  IF c2 > LINES - 1 THEN page_down([s EXCEPT !.cursor = c2], oob)
             ELSE [s EXCEPT !.cursor = c2]

\* bytes that may follow an unterminated buffer on the heap
Junk == {<< >>, <<97>>}

\* what is_file may read beyond the array of the current store
Oob == IF heap[current].father = 0 THEN {TRUE} ELSE BOOLEAN

\* a navigation key: synchronized(mainsearch->data_mutex) around the handler,
\* which leaves the store moved
UiKey(moved) ==
    /\ ui_pc = "loop"
    /\ data_mutex = "none"
    /\ heap' = [heap EXCEPT ![current] = moved]
    /\ ui_pc' = "status"
    /\ UNCHANGED <<tree, command, argv, optind,
                   root_isfile, mainsearch_attr, current, data_mutex,
                   pipe_vars, exit_code, budget>>

\* case CURSOR_DOWN, KEY_DOWN
UiCursorDown ==
    ui_pc = "loop" /\ \E oob \in Oob : UiKey(cursor_down(heap[current], oob))

\* case CURSOR_UP, KEY_UP
UiCursorUp ==
    ui_pc = "loop" /\ \E oob \in Oob : UiKey(cursor_up(heap[current], oob))

\* case KEY_PPAGE, PAGE_UP
UiPageUp ==
    ui_pc = "loop" /\ \E oob \in Oob : UiKey(page_up(heap[current], oob))

\* case KEY_NPAGE, PAGE_DOWN
UiPageDown ==
    ui_pc = "loop" /\ \E oob \in Oob : UiKey(page_down(heap[current], oob))

\* find_file(index): climbs to the first entry that is a file
find_file(index, s) ==
    CHOOSE f \in 0..index :
        /\ is_file(f, s)
        /\ \A j \in (f + 1)..index : ~is_file(j, s)

\* open_entry, taking the file from the selected entry itself
open_entry_NoClimb(index, s) ==
    [line |-> s.entries[index + 1].line,
     file |-> CStr(s.entries[index + 1].data, 0)]

\* the arguments open_entry gives snprintf for the line and the file
open_entry(index, s) ==
    [line |-> s.entries[index + 1].line,
     file |-> CStr(s.entries[find_file(index, s) + 1].data, 0)]

\* case ENTER: nothing on an empty store, else open_entry on the selection;
\* a selection beyond the entries reads an entry that was never written
UiEnter ==
    /\ ui_pc = "loop"
    /\ LET s == heap[current]
           sel == s.cursor + s.index
       IN  IF s.nbentry = 0
           THEN command' = command
           ELSE /\ data_mutex = "none"
                /\ IF sel >= 0 /\ sel < s.nbentry
                      /\ \E f \in 0..sel : is_file(f, s)
                   THEN command' = <<open_entry(sel, s)>>
                   ELSE \E junk \in Junk :
                            command' = <<[line |-> 0, file |-> junk]>>
    /\ ui_pc' = "status"
    /\ UNCHANGED <<tree, argv, optind, root_isfile, mainsearch_attr, heap, current,
                   data_mutex, pipe_vars, exit_code, budget>>

(***************************************************************************)
(* Initial states                                                          *)
(***************************************************************************)
\* after main has created lookup_thread and lookup_thread its semaphores and
\* its three threads, for the walk t of a root search of pattern pat
InitWith(t, isfile, pat, is_regex, attr, b) ==
    /\ tree = t
    /\ root_isfile = isfile
    /\ mainsearch_attr = attr
    /\ heap = <<MainSearch(pat, is_regex, attr.is_insensitive)>>
    /\ current = 1
    /\ data_mutex = "none"
    /\ new_file_signal = 1
    /\ is_data_for_worker = [t2 \in {0, 1} |-> 0]
    /\ worker_data_treated = [t2 \in {0, 1} |-> 0]
    /\ filep = [name |-> << >>, start |-> << >>, mid |-> 0, size |-> 0, midline |-> 0]
    /\ worker_res = [t2 \in {0, 1} |-> << >>]
    /\ lookup_pc = "walk"
    /\ lookup_i = 1
    /\ worker_pc = [t2 \in {0, 1} |-> "check"]
    /\ save_pc = "check"
    /\ save_res = << >>
    /\ ui_pc = "loop"
    /\ exit_code = -1
    /\ published = << >>
    /\ nmerged = 0
    /\ budget = b
    /\ command = << >>
    /\ argv = << >>
    /\ optind = 1

\* extensions {.c}, no specific file, not raw, case sensitive
AttrC == [raw |-> 0, is_insensitive |-> 0, follow_symlinks |-> 0,
          firstspec |-> << >>, firstext |-> << <<46, 99>> >>]

\* the files of Spec: an empty f.c, "b\n" and "aa\na\naa\n" as f.c, "a\n" as f.py
PipeKinds ==
    { [bytes |-> << >>, ext |-> <<46, 99>>],
      [bytes |-> <<98, 10>>, ext |-> <<46, 99>>],
      [bytes |-> <<97, 97, 10, 97, 10, 97, 97, 10>>, ext |-> <<46, 99>>],
      [bytes |-> <<97, 10>>, ext |-> <<46, 112, 121>>] }

\* entry i of a walk: ./<i><ext>
MkTree(kinds) ==
    [i \in 1..Len(kinds) |->
        [name |-> <<46, 47, 48 + i>> \o kinds[i].ext,
         bytes |-> kinds[i].bytes, ok |-> TRUE, symlink |-> FALSE]]

PipeTrees == UNION {[1..n -> PipeKinds] : n \in 1..MaxFiles}

\* the pattern of the root search of Spec: "a"
PipePattern == <<97>>

\* the patterns typed in the subsearch window in Spec: none, "aa"
PipeSearches == {<< >>, <<97, 97>>}

Init ==
    \E k \in PipeTrees : \E isfile \in BOOLEAN :
        /\ isfile => Len(k) = 1
        /\ InitWith(MkTree(k), isfile, PipePattern, 0, AttrC, MaxAlloc)

Lookup ==
    \/ LookupSkip \/ LookupLock \/ LookupRootFile
    \/ ParseFileError \/ ParseFileMap \/ ParseFilePost1
    \/ LookupUnlock \/ LookupDone

Worker(tnum) ==
    \/ WorkerCheck(tnum) \/ WorkerWait(tnum) \/ WorkerScan(tnum)

Save ==
    \/ SaveCheck \/ SaveWait(0) \/ SaveWait(1) \/ SaveAddFile
    \/ SaveAddLine \/ SaveRelease

Ui ==
    \/ UiQuitChild \/ UiQuitRoot
    \/ UiStatusLock \/ UiStatusUnlock \/ UiCheckEmpty

Next ==
    \/ Lookup
    \/ \E tnum \in {0, 1} : Worker(tnum)
    \/ Save
    \/ Ui
    \/ \E search \in PipeSearches : \E junk \in Junk : UiSubsearch(search, junk)

Spec == Init /\ [][Next]_vars

(***************************************************************************)
(* Vocabulary of the properties                                            *)
(***************************************************************************)
RECURSIVE Flatten(_)
Flatten(ss) == IF ss = << >> THEN << >> ELSE Head(ss) \o Flatten(Tail(ss))

IsPrefix(a, b) == Len(a) <= Len(b) /\ a = SubSeq(b, 1, Len(a))

\* the lines save_thread appends for a file of the root search main once
\* both workers have scanned it: worker 0's, then worker 1's with worker 0's
\* line count added
MergedLines(main, bytes) ==
    LET mid == MidOf(bytes)
        r0 == ScanLoop(main, main, bytes, 0, mid - 1, 1, << >>)
        r1 == ScanLoop(main, main, bytes, mid, Len(bytes), 1, << >>)
    IN  [k \in 1..Len(r0.res) |->
            [data |-> r0.res[k].line, line |-> r0.res[k].index]]
        \o [k \in 1..Len(r1.res) |->
               [data |-> r1.res[k].line,
                line |-> r1.res[k].index + r0.line_count - 1]]

\* the merged lines of each file content of Spec that parse_file maps
PipeLines ==
    [bytes \in {k.bytes : k \in PipeKinds} \ {<< >>} |->
        MergedLines(MainSearch(PipePattern, 0, 0), bytes)]

\* the entries of file f in the root store of Spec once it is merged: its
\* header if it has lines, and its lines
FileEntries(f) ==
    IF PipeLines[f.bytes] = << >> THEN << >>
    ELSE <<[data |-> Strdup(f.name), line |-> 0]>> \o PipeLines[f.bytes]

\* the store holding exactly the first k published files, each complete
StoreOfPublished(k) ==
    Flatten([n \in 1..k |-> FileEntries(tree[published[n]])])

\* the root store holds only complete files
CompleteFiles ==
    \E k \in 0..Len(published) : mainsearch.entries = StoreOfPublished(k)

\* save_thread is between the header (or its omission) and the release
Merging == save_pc \in {"lines0", "lines1"}

\* no thread of the pipeline can take a step
PipelineAtRest == ~ENABLED (Lookup \/ (\E tnum \in {0, 1} : Worker(tnum)) \/ Save)

\* the live struct search objects
Live == {c \in 1..Len(heap) : heap[c].parser # "freed"}
Children == {c \in Live : c # 1}

IsLine(e) == e.line # 0
IsHeader(e) == e.line = 0

\* every line has a header before it, every header a line right after it
WellFormed(es) ==
    /\ es # << >> => IsHeader(es[1])
    /\ \A i \in 1..Len(es) :
          IsHeader(es[i]) => i < Len(es) /\ IsLine(es[i + 1])

\* number of headers of the root store that name file f
HeadersOf(f) ==
    Cardinality({i \in 1..Len(mainsearch.entries) :
                    /\ IsHeader(mainsearch.entries[i])
                    /\ mainsearch.entries[i].data = Strdup(f.name)})

\* line numbers increase strictly between two headers
Monotonic(es) ==
    \A i \in 1..Len(es) : \A j \in (i + 1)..Len(es) :
        (\A k \in i..j : IsLine(es[k])) => es[i].line < es[j].line

(***************************************************************************)
(* C1: whenever the UI thread reads the root store holding data_mutex, the *)
(* store holds only complete files (no header without its lines, no part   *)
(* of a file's lines).  Stated as claimed; save_thread appends without     *)
(* taking data_mutex, so the UI can hold it in the middle of a merge.      *)
(***************************************************************************)
C1_UiReadsCompleteFiles ==
    (ui_pc = "display" /\ data_mutex = "ui") => CompleteFiles

(***************************************************************************)
(* C3: every file parse_file published is scanned and merged: once the     *)
(* walker has recorded done and the pipeline has come to rest, the root    *)
(* store holds the lines of every published file.  Stated as claimed; the  *)
(* workers and save_thread leave on status = 0 without looking for a last  *)
(* published file.                                                         *)
(***************************************************************************)
C3_PublishedFilesMerged ==
    (Running /\ lookup_pc = "done" /\ PipelineAtRest)
        => mainsearch.entries = StoreOfPublished(Len(published))

(***************************************************************************)
(* C7: the headers of the root store are in the order in which the walker  *)
(* published their files, and the results of a later file never come       *)
(* before or between those of an earlier one: the store is always a prefix *)
(* of the published files' results laid end to end in publication order.   *)
(***************************************************************************)
C7_CrossFileOrder ==
    IsPrefix(mainsearch.entries, StoreOfPublished(Len(published)))

\* two files are in the store, in publication order
C7_Witness ==
    /\ Len(published) = 2 /\ nmerged = 2
    /\ Cardinality({i \in 1..Len(mainsearch.entries) :
                       IsHeader(mainsearch.entries[i])}) = 2

(***************************************************************************)
(* C2: the root store, whenever save_thread is not in the middle of a      *)
(* merge, and every subsearch store, always: the first entry is a header,  *)
(* a header is followed by a line (never by a header, never last).  A      *)
(* scanned file has one header in the root store when a worker found a     *)
(* line in it, none otherwise; a file not yet scanned has none.            *)
(***************************************************************************)
Scanned(n) == n <= nmerged \/ (n = nmerged + 1 /\ Merging)

C2_StoreWellFormed ==
    /\ ~Merging => WellFormed(mainsearch.entries)
    /\ \A c \in Children : WellFormed(heap[c].entries)
    /\ \A n \in 1..Len(published) :
          HeadersOf(tree[published[n]]) =
              IF Scanned(n) /\ FileEntries(tree[published[n]]) # << >>
              THEN 1 ELSE 0

\* a file with lines and a file without have been merged, a subsearch holds
\* a header
C2_Witness ==
    /\ ~Merging /\ nmerged = 2
    /\ \E n \in 1..2 : FileEntries(tree[published[n]]) = << >>
    /\ \E n \in 1..2 : FileEntries(tree[published[n]]) # << >>
    /\ mainsearch.entries # << >>
    /\ \E c \in Children : heap[c].entries # << >>

(***************************************************************************)
(* C6: in the root store and in every subsearch store, the line numbers of *)
(* the lines under one header increase strictly in store order.            *)
(***************************************************************************)
C6_LineNumbersIncrease ==
    \A c \in Live : Monotonic(heap[c].entries)

\* lines of both workers are under one header of the root store, and a
\* subsearch store holds two lines under one header
C6_Witness ==
    /\ \E i \in 1..(Len(mainsearch.entries) - 2) :
          /\ IsHeader(mainsearch.entries[i])
          /\ mainsearch.entries[i + 1].line = 1
          /\ mainsearch.entries[i + 2].line = 2
    /\ \E i \in 1..Len(mainsearch.entries) : mainsearch.entries[i].line = 3
    /\ \E c \in Children : heap[c].nb_lines = 2 /\ heap[c].nbentry = 3

(***************************************************************************)
(* SpecScan: one file goes through parse_file, the two workers and         *)
(* save_thread; the file is any short string over a, b and newline, or one *)
(* line of about LINE_MAX bytes                                            *)
(***************************************************************************)
Seqs(S, n) == UNION {[1..k -> S] : k \in 1..n}

\* "ab", then b's up to len bytes, then a newline
LongLine(len) == [k \in 1..(len + 1) |->
                    IF k = 1 THEN 97 ELSE IF k = len + 1 THEN NL ELSE 98]

ScanFiles ==
    Seqs({97, 98, NL}, MaxScanLen)
    \cup {LongLine(len) : len \in (LINE_MAX - 2)..(LINE_MAX + MaxOver)}

\* "a" (strstr_wrapper) and "ab" (bmh)
ScanPatterns == {<<97>>, <<97, 98>>}

InitScan ==
    \E bytes \in ScanFiles : \E pat \in ScanPatterns : \E isfile \in BOOLEAN :
        InitWith(MkTree(<<[bytes |-> bytes, ext |-> <<46, 99>>]>>),
                 isfile, pat, 0, AttrC, 0)

NextScan ==
    \/ LookupLock \/ LookupRootFile \/ ParseFileMap \/ ParseFilePost1
    \/ LookupUnlock \/ LookupDone
    \/ \E tnum \in {0, 1} : Worker(tnum)
    \/ Save

SpecScan == InitScan /\ [][NextScan]_vars

\* the file of SpecScan and the lines of the root store once it is merged
TheFile == tree[1].bytes
StoredLines == SelectSeq(mainsearch.entries, IsLine)
FileMerged == nmerged = 1

\* the lines a single scan of the whole file with the worker's loop reports
SequentialScan ==
    LET r == ScanLoop(mainsearch, mainsearch, TheFile, 0, Len(TheFile), 1, << >>).res
    IN  [k \in 1..Len(r) |-> [data |-> r[k].line, line |-> r[k].index]]

NewlineTerminated(bytes) == bytes # << >> /\ bytes[Len(bytes)] = NL

RECURSIVE SplitLines(_)
\* the lines of a file, without their newline; a last line that has no
\* newline is a line
SplitLines(bytes) ==
    IF bytes = << >> THEN << >>
    ELSE IF \E i \in 1..Len(bytes) : bytes[i] = NL
    THEN LET e == CHOOSE i \in 1..Len(bytes) :
                     bytes[i] = NL /\ \A j \in 1..(i - 1) : bytes[j] # NL
         IN  <<SubSeq(bytes, 1, e - 1)>> \o SplitLines(SubSeq(bytes, e + 1, Len(bytes)))
    ELSE <<bytes>>

\* the line satisfies the matcher of the root search
Matches(line) == Parser(mainsearch, mainsearch, line \o <<0>>, 0, Len(line))

\* the text the store is to hold for a line: its first LINE_MAX - 1 bytes
\* at most, then the terminator
Truncated(line) ==
    SubSeq(line, 1, IF Len(line) < LINE_MAX THEN Len(line) ELSE LINE_MAX - 1) \o <<0>>

(***************************************************************************)
(* C4: for a file of newline-terminated lines, what save_thread appends    *)
(* (worker 0's lines, then worker 1's with worker 0's line count added) is *)
(* the list one sequential scan of the whole file gives: same texts, same  *)
(* order, same line numbers.  Stated as claimed; worker 0 stops before an  *)
(* empty line at the split and the line count it reports is one short.     *)
(***************************************************************************)
C4_SplitEqualsSequential ==
    (FileMerged /\ NewlineTerminated(TheFile)) => StoredLines = SequentialScan

(***************************************************************************)
(* C5: once a file is merged, each of its lines that satisfies the matcher *)
(* has exactly one line entry with its 1-based number, whether or not the  *)
(* last line ends with a newline, and no other line entry exists.  Stated  *)
(* as claimed; the scan loop only takes lines that end with a newline.     *)
(***************************************************************************)
C5_PerFileCompleteness ==
    FileMerged =>
        LET lines == SplitLines(TheFile)
        IN  /\ \A k \in 1..Len(lines) :
                  Cardinality({i \in 1..Len(StoredLines) : StoredLines[i].line = k})
                      = IF Matches(lines[k]) THEN 1 ELSE 0
            /\ \A i \in 1..Len(StoredLines) : StoredLines[i].line \in 1..Len(lines)

(***************************************************************************)
(* C8: every line text a worker stored is at most LINE_MAX - 1 bytes       *)
(* followed by a terminator: the whole line when it is that short, its     *)
(* first LINE_MAX - 1 bytes otherwise.  Stated as claimed; a line of       *)
(* LINE_MAX bytes or more is copied as LINE_MAX bytes with no terminator.  *)
(***************************************************************************)
C8_Truncation ==
    \A t \in {0, 1} : \A k \in 1..Len(worker_res[t]) :
        \E line \in {SplitLines(TheFile)[n] : n \in 1..Len(SplitLines(TheFile))} :
            worker_res[t][k].line = Truncated(line)

(***************************************************************************)
(* SpecSub: a search whose results are subsearched, twice at most, with    *)
(* the pattern of the current search or with "ab", while the pipeline runs *)
(***************************************************************************)
\* "ab\nA\na\n" and "a\n"
SubTreeA == << [bytes |-> <<97, 98, NL, 65, NL, 97, NL>>, ext |-> <<46, 99>>],
               [bytes |-> <<97, NL>>, ext |-> <<46, 99>>] >>

\* "^^\na^^\n"
SubTreeAnchor == << [bytes |-> <<94, 94, NL, 97, 94, 94, NL>>, ext |-> <<46, 99>>] >>

\* one line of LINE_MAX b's followed by "a"
SubTreeLong ==
    << [bytes |-> [k \in 1..(LINE_MAX + 2) |->
                      IF k = LINE_MAX + 2 THEN NL
                      ELSE IF k = LINE_MAX + 1 THEN 97 ELSE 98],
        ext |-> <<46, 99>>] >>

\* the runs of SpecSub: files, root pattern ("a" or "^^"), -i or not
SubCases ==
    [tree : {SubTreeA, SubTreeAnchor}, pat : {<<97>>, <<94, 94>>}, ins : {0, 1}]
    \cup [tree : {SubTreeLong}, pat : {<<97>>}, ins : {0}]

InitSub ==
    \E c \in SubCases :
        InitWith(MkTree(c.tree), FALSE, c.pat, 0,
                 [AttrC EXCEPT !.is_insensitive = c.ins], MaxSubDepth)

\* what is typed in the subsearch window: the current pattern again, or "ab"
SubSearches ==
    {heap[c].pattern : c \in {current} \cap DOMAIN heap} \cup {<<97, 98>>}

NextSub ==
    \/ LookupLock \/ ParseFileMap \/ ParseFilePost1 \/ LookupUnlock \/ LookupDone
    \/ \E tnum \in {0, 1} : Worker(tnum)
    \/ Save
    \/ \E search \in SubSearches : \E junk \in Junk : UiSubsearch(search, junk)
    \/ UiStatusLock \/ UiStatusUnlock \/ UiCheckEmpty

SpecSub == InitSub /\ [][NextSub]_vars

\* this step is a subsearch that made a new context the current one
SubsearchStep ==
    current' # current /\ current' # 0 /\ heap'[current'].father = current

\* the stored text of an entry, as a string
Text(e) == CStr(e.data, 0)
Terminated(e) == e.data # << >> /\ e.data[Len(e.data)] = 0

\* the k-th smallest element of a set of integers
Nth(S, k) == CHOOSE i \in S : Cardinality({j \in S : j < i}) = k - 1

\* the parent's lines that match re, and the headers that have such a line
\* before the next header
Kept(es, re) ==
    {i \in 1..Len(es) :
        \/ IsLine(es[i]) /\ Regexec(re, Text(es[i]))
        \/ /\ IsHeader(es[i])
           /\ \E j \in (i + 1)..Len(es) :
                 /\ IsLine(es[j]) /\ Regexec(re, Text(es[j]))
                 /\ \A k \in (i + 1)..j : IsLine(es[k])}

\* the parent's entries filtered in order, texts copied
Filtered(es, re) ==
    [k \in 1..Cardinality(Kept(es, re)) |->
        [data |-> Strdup(Text(es[Nth(Kept(es, re), k)])),
         line |-> es[Nth(Kept(es, re), k)].line]]

(***************************************************************************)
(* C9: the store subsearch builds is the parent's entry sequence filtered  *)
(* in order: each parent line whose text matches the child's regex, with   *)
(* its line number, each header that has such a line before the next       *)
(* header, placed before the first of them, and nothing else.  Stated as   *)
(* claimed; subsearch reads a parent text with strlen and regexec, and a   *)
(* text the worker left unterminated is read past its buffer.              *)
(***************************************************************************)
C9_SubsearchFilters ==
    [][SubsearchStep =>
          heap'[current'].entries
              = Filtered(heap[current].entries, heap'[current'].regex)]_vars

\* the header an entry is under
HeaderOf(es, i) ==
    LET hs == {h \in 1..i : IsHeader(es[h])}
    IN  IF hs = {} THEN << >> ELSE Text(es[Nth(hs, Cardinality(hs))])

\* the set of match lines of a store: file, line number, text
Lines(sr) ==
    {[file |-> HeaderOf(sr.entries, i), line |-> sr.entries[i].line,
      text |-> Text(sr.entries[i])] :
        i \in {j \in 1..Len(sr.entries) : IsLine(sr.entries[j])}}

\* the subsearch of this step was given the pattern of the search it filters
OwnPattern == heap'[current'].pattern = heap[current].pattern

\* no character of the pattern is special in a basic regular expression
Ordinary(pat) == \A k \in 1..Len(pat) : pat[k] \notin {36, 42, 46, 91, 92, 94}

\* the root search is a case-sensitive search for a fixed string of ordinary
\* characters and every line it holds is stored whole, with its terminator
PlainRoot ==
    /\ mainsearch.is_regex = 0
    /\ mainsearch_attr.is_insensitive = 0
    /\ Ordinary(mainsearch.pattern)
    /\ \A i \in 1..Len(mainsearch.entries) : Terminated(mainsearch.entries[i])

NavTree ==
    MkTree(<< [bytes |-> <<97, 10, 97, 10>>, ext |-> <<46, 99>>],
              [bytes |-> <<97, 10>>, ext |-> <<46, 99>>] >>)

\* one subsearch may be made
InitNav == InitWith(NavTree, FALSE, PipePattern, 0, AttrC, 1)

NextNav ==
    \/ LookupLock \/ ParseFileMap \/ ParseFilePost1 \/ LookupUnlock \/ LookupDone
    \/ \E tnum \in {0, 1} : Worker(tnum)
    \/ Save
    \/ UiCursorDown \/ UiCursorUp \/ UiPageUp \/ UiPageDown \/ UiEnter
    \/ \E junk \in Junk : UiSubsearch(PipePattern, junk)
    \/ UiStatusLock \/ UiStatusUnlock \/ UiCheckEmpty

SpecNav == InitNav /\ [][NextNav]_vars

\* the store of the current context, and the entry the cursor is on
Store == heap[current].entries
Selected == heap[current].index + heap[current].cursor
HasLine(es) == \E i \in 1..Len(es) : IsLine(es[i])

\* C11: whenever the store is well formed and holds a match line, the entry
\* at index + cursor exists and is a match line, never a file header
C11_SelectionIsLine ==
    (Running /\ WellFormed(Store) /\ HasLine(Store))
        => /\ Selected >= 0 /\ Selected < Len(Store)
           /\ IsLine(Store[Selected + 1])

\* index (from 0) of the last header of es at or before entry i
NearestHeader(es, i) ==
    CHOOSE h \in 0..i :
        IsHeader(es[h + 1]) /\ \A k \in 0..i : IsHeader(es[k + 1]) => k <= h

\* C13: Enter on entry i of the current store gives the editor the line
\* number of entry i and, as file, the data of the nearest header at or
\* before i; Enter on an empty store launches nothing
C13_OpenAtLine ==
    [][UiEnter =>
        IF Store = << >> THEN command' = command
        ELSE (/\ Selected \in 0..(Len(Store) - 1)
              /\ \E h \in 0..Selected : IsHeader(Store[h + 1]))
             => command' =
                  << [line |-> Store[Selected + 1].line,
                      file |-> Text(Store[NearestHeader(Store, Selected) + 1])] >>
      ]_vars

\* Enter was pressed on a match line of a subsearch store: the editor was
\* given that line's number and the header above it
C13_Witness ==
    /\ current # 1
    /\ ui_pc = "status"
    /\ Selected \in 1..(Len(Store) - 1)
    /\ IsLine(Store[Selected + 1])
    /\ command = << [line |-> Store[Selected + 1].line,
                     file |-> Text(Store[NearestHeader(Store, Selected) + 1])] >>
    /\ NearestHeader(Store, Selected) < Selected

(***************************************************************************)
(* SpecCtx: subsearches accepted and rejected, and the q key               *)
(***************************************************************************)
\* what is typed in the subsearch window: nothing, "a", and "[" which
\* regcomp rejects
CtxSearches == {<< >>, <<97>>, <<91>>}

\* one file, "a\na\n" as 1.c
InitCtx ==
    InitWith(MkTree(<<[bytes |-> <<97, 10, 97, 10>>, ext |-> <<46, 99>>]>>),
             FALSE, PipePattern, 0, AttrC, MaxSubDepth)

NextCtx ==
    \/ LookupLock \/ ParseFileMap \/ ParseFilePost1 \/ LookupUnlock \/ LookupDone
    \/ \E tnum \in {0, 1} : Worker(tnum)
    \/ Save
    \/ \E search \in CtxSearches : \E junk \in Junk : UiSubsearch(search, junk)
    \/ UiQuitChild \/ UiQuitRoot
    \/ UiStatusLock \/ UiStatusUnlock \/ UiCheckEmpty

SpecCtx == InitCtx /\ [][NextCtx]_vars

\* number of father links from context c of heap h up to the main search
RECURSIVE Depth(_, _)
Depth(h, c) == IF h[c].father = 0 THEN 0 ELSE 1 + Depth(h, h[c].father)

\* the q key is handled by this step
QuitStep == UiQuitChild \/ UiQuitRoot

\* C12: q in a subsearch of depth n > 0 leaves the program running in the
\* father, at depth n - 1, with the child destroyed and the father's child
\* link cleared; q at depth 0 terminates the program
C12_QuitPops ==
    [][QuitStep =>
        IF Depth(heap, current) > 0
        THEN /\ Running'
             /\ current' = heap[current].father
             /\ Depth(heap', current') = Depth(heap, current) - 1
             /\ heap'[current] = Freed
             /\ heap'[current'].child = 0
             /\ \A c \in 1..Len(heap) :
                   c \notin {current, current'} => heap'[c] = heap[c]
        ELSE ~Running']_vars

\* q was pressed at depth 2: the second subsearch is destroyed and the first
\* one, at depth 1, is the current one
C12_Witness ==
    /\ Len(heap) = 3
    /\ heap[3] = Freed
    /\ current = 2
    /\ Depth(heap, current) = 1
    /\ Running

\* C14: a normal quit, q pressed in the main search, terminates the process
\* with exit status 0
C14_QuitExitsZero ==
    [][(UiQuitRoot /\ ~Running') => exit_code' = 0]_vars

\* the text typed is empty or does not compile
Rejected(search) == search = << >> \/ ~RegcompOk(search)

\* C15: a subsearch whose pattern is empty or not a valid regex leaves the
\* father the current search, with its entries, counters, index and cursor
\* as they were
C15_RejectedSubsearch ==
    [][(\E search \in CtxSearches : \E junk \in Junk :
            Rejected(search) /\ UiSubsearch(search, junk))
       => /\ Running'
          /\ current' = current
          /\ heap'[current].entries = heap[current].entries
          /\ heap'[current].nbentry = heap[current].nbentry
          /\ heap'[current].nb_lines = heap[current].nb_lines
          /\ heap'[current].index = heap[current].index
          /\ heap'[current].cursor = heap[current].cursor]_vars

\* "[" was typed in a subsearch of a store that has entries: the rejected
\* context exists and the father is still the current search
C15_Witness ==
    /\ ui_pc = "status"
    /\ current = 2
    /\ heap[current].entries # << >>
    /\ heap[current].child = 3
    /\ heap[3].pattern = <<91>>
    /\ heap[3].father = current

(***************************************************************************)
(* SpecWalk: which entries of a walk reach parse_file                      *)
(***************************************************************************)
\* the entries of SpecWalk: a.c, b.py, M, MM, and a symlink a.c
WalkKinds ==
    { [base |-> <<97, 46, 99>>, symlink |-> FALSE],
      [base |-> <<98, 46, 112, 121>>, symlink |-> FALSE],
      [base |-> <<77>>, symlink |-> FALSE],
      [base |-> <<77, 77>>, symlink |-> FALSE],
      [base |-> <<97, 46, 99>>, symlink |-> TRUE] }

\* entry i of the walk: ./<i>/<base>, holding "a\n"
MkWalk(kinds) ==
    [i \in 1..Len(kinds) |->
        [name |-> <<46, 47, 48 + i, 47>> \o kinds[i].base,
         bytes |-> <<97, 10>>, ok |-> TRUE, symlink |-> kinds[i].symlink]]

\* -r or not, -f or not, the specific file M or none; extensions {.c}
WalkAttrs ==
    {[AttrC EXCEPT !.raw = r, !.follow_symlinks = f, !.firstspec = sp] :
        r \in {0, 1}, f \in {0, 1}, sp \in {<< >>, << <<77>> >>}}

InitWalk ==
    \E k \in UNION {[1..n -> WalkKinds] : n \in 1..MaxFiles} :
        \E attr \in WalkAttrs :
            InitWith(MkWalk(k), FALSE, PipePattern, 0, attr, 0)

NextWalk ==
    \/ LookupSkip \/ LookupLock \/ ParseFileMap \/ ParseFilePost1
    \/ LookupUnlock \/ LookupDone
    \/ \E tnum \in {0, 1} : Worker(tnum)
    \/ Save

SpecWalk == InitWalk /\ [][NextWalk]_vars

\* the part of a path after its last '/'
BaseName(name) ==
    LET last == IF \E i \in 1..Len(name) : name[i] = 47
                THEN CHOOSE i \in 1..Len(name) :
                        name[i] = 47 /\ \A j \in (i + 1)..Len(name) : name[j] # 47
                ELSE 0
    IN  [k \in 1..(Len(name) - last) |-> name[last + k]]
EndsWith(name, suf) ==
    /\ Len(suf) <= Len(name)
    /\ \A k \in 1..Len(suf) : name[Len(name) - Len(suf) + k] = suf[k]

\* the entries of the walk lookup_directory is done with
Passed == 1..(lookup_i - 1)
WasHanded(i) == \E k \in 1..Len(published) : published[k] = i

\* raw mode, or the basename is a specific file, or the name ends with an
\* extension of the list
Claimed(f) ==
    \/ mainsearch_attr.raw = 1
    \/ \E k \in 1..Len(mainsearch_attr.firstspec) :
          mainsearch_attr.firstspec[k] = BaseName(f.name)
    \/ \E k \in 1..Len(mainsearch_attr.firstext) :
          EndsWith(f.name, mainsearch_attr.firstext[k])

\* with extensions {.c}, no specific file and no raw mode, no entry of the
\* store is a file whose name ends with .py
NoPyEntry ==
    (/\ mainsearch_attr.raw = 0
     /\ mainsearch_attr.firstspec = << >>
     /\ mainsearch_attr.firstext = << <<46, 99>> >>)
    => \A i \in 1..Len(mainsearch.entries) :
          IsHeader(mainsearch.entries[i])
              => ~EndsWith(Text(mainsearch.entries[i]), <<46, 112, 121>>)

\* C16 as stated: every non-directory entry the walker is done with was
\* handed to the scanner if and only if raw mode is set, or its basename is
\* a specific file, or its name ends with an extension of the list; and b.py
\* contributes no entry under extensions {.c}
C16_AsClaimed ==
    /\ \A i \in Passed : WasHanded(i) <=> Claimed(tree[i])
    /\ NoPyEntry

\* C16, for the entries that are not symbolic links, or with -f: such an
\* entry was handed to the scanner if and only if raw mode is set, or its
\* basename is a specific file, or its name ends with an extension of the
\* list; a symbolic link without -f is never handed; under extensions {.c}
\* alone b.py contributes no entry
C16_Eligibility ==
    /\ \A i \in Passed :
          WasHanded(i) <=>
              /\ Claimed(tree[i])
              /\ ~tree[i].symlink \/ mainsearch_attr.follow_symlinks = 1
    /\ \A k \in 1..Len(published) :
          /\ Claimed(tree[published[k]])
          /\ ~tree[published[k]].symlink \/ mainsearch_attr.follow_symlinks = 1
    /\ NoPyEntry

\* the walk ./1/M, ./2/b.py is finished with the specific file M and
\* extensions {.c}: M was scanned and is in the store, b.py was not
C16_Witness ==
    /\ lookup_pc = "done"
    /\ mainsearch_attr.raw = 0
    /\ mainsearch_attr.firstspec = << <<77>> >>
    /\ Len(tree) = 2
    /\ BaseName(tree[1].name) = <<77>>
    /\ BaseName(tree[2].name) = <<98, 46, 112, 121>>
    /\ published = <<1>>
    /\ nmerged = 1
    /\ Len(mainsearch.entries) = 2

(***************************************************************************)
(* SpecArgs: get_args on command lines of -t and -o                        *)
(***************************************************************************)
\* the arguments given to -t and -o: ".c", ".py", and LINE_MAX + 1 times 'x'
ArgExts == {<<46, 99>>, <<46, 112, 121>>, [k \in 1..(LINE_MAX + 1) |-> 120]}

ArgOptions == [opt : {"t", "o"}, arg : ArgExts]

\* the lists get_config has made of /etc/ngprc
ConfigExts == {<< >>, << <<46, 99>> >>, << <<46, 99>>, <<46, 104>> >>}
ConfigSpecs == {<< >>, << <<77>> >>}

\* main has called get_config and calls get_args; no thread exists yet
InitArgs ==
    \E a \in UNION {[1..n -> ArgOptions] : n \in 1..MaxArgs} :
        \E e \in ConfigExts : \E sp \in ConfigSpecs :
            /\ tree = << >> /\ root_isfile = FALSE
            /\ mainsearch_attr = [AttrC EXCEPT !.firstext = e, !.firstspec = sp]
            /\ heap = <<init_searchstruct(MallocSearch)>>
            /\ current = 1 /\ data_mutex = "none"
            /\ new_file_signal = 1
            /\ is_data_for_worker = [t2 \in {0, 1} |-> 0]
            /\ worker_data_treated = [t2 \in {0, 1} |-> 0]
            /\ filep = [name |-> << >>, start |-> << >>, mid |-> 0,
                        size |-> 0, midline |-> 0]
            /\ worker_res = [t2 \in {0, 1} |-> << >>]
            /\ lookup_pc = "walk" /\ lookup_i = 1
            /\ worker_pc = [t2 \in {0, 1} |-> "check"]
            /\ save_pc = "check" /\ save_res = << >>
            /\ ui_pc = "loop" /\ exit_code = -1
            /\ published = << >> /\ nmerged = 0 /\ budget = 0
            /\ command = << >>
            /\ argv = a /\ optind = 1

NextArgs == \E junk \in Junk : GetArgsOption(junk)

SpecArgs == InitArgs /\ [][NextArgs]_vars

\* C17: each -t EXT appends EXT to the extension list and leaves the
\* specific-filename list as it was; each -o EXT leaves the extension list
\* equal to <<EXT>> and the specific-filename list empty
C17_OptionLists ==
    [][optind' = optind + 1 =>
        LET o == argv[optind]
        IN  IF o.opt = "t"
            THEN /\ mainsearch_attr'.firstext
                      = Append(mainsearch_attr.firstext, o.arg)
                 /\ mainsearch_attr'.firstspec = mainsearch_attr.firstspec
            ELSE /\ mainsearch_attr'.firstext = <<o.arg>>
                 /\ mainsearch_attr'.firstspec = << >>]_vars

(***************************************************************************)
(* The hand-off of one file through the pipeline (Spec)                    *)
(***************************************************************************)
\* every semaphore has the value 0 or 1
SemsBinary ==
    /\ new_file_signal \in {0, 1}
    /\ \A t \in {0, 1} :
          is_data_for_worker[t] \in {0, 1} /\ worker_data_treated[t] \in {0, 1}

\* worker t has work left on the file at hand: a post it has not taken, or
\* a scan it has not finished
Scanning(t) == is_data_for_worker[t] > 0 \/ worker_pc[t] = "scan"

\* this step is parse_file writing filep; save_thread unmapping the file and
\* posting new_file_signal; save_thread deciding on the header
WalkerWrites == lookup_pc = "parse" /\ lookup_pc' = "post1"
ConsumerReleases == nmerged' = nmerged + 1
ConsumerDecides == save_pc = "file" /\ save_pc' # "file"

\* C18: at most one published file is not yet released; the walker writes
\* filep only when every published file has been released; save_thread
\* unmaps only when no worker has work left on the file; every semaphore
\* is 0 or 1
C18_SlotExclusion ==
    [][/\ SemsBinary /\ SemsBinary'
       /\ Len(published') - nmerged' \in {0, 1}
       /\ WalkerWrites => Len(published) = nmerged
       /\ ConsumerReleases => \A t \in {0, 1} : ~Scanning(t)
      ]_vars

\* the second file of a walk is being scanned after the first was released
C18_Witness ==
    /\ Len(published) = 2
    /\ nmerged = 1
    /\ \E t \in {0, 1} : worker_pc[t] = "scan"
    /\ new_file_signal = 0

\* C19: save_thread reads the result lists and filep.midline only when both
\* workers are done with the file; both lists are empty when it posts
\* new_file_signal; a worker that starts a file has an empty list; and the
\* header is added exactly when the file at hand has a matching line
C19_HandOff ==
    [][/\ save_pc' \in {"file", "lines0", "lines1"}
             => \A t \in {0, 1} : ~Scanning(t)'
       /\ ConsumerReleases => \A t \in {0, 1} : worker_res'[t] = << >>
       /\ \A t \in {0, 1} : worker_pc'[t] = "scan" => worker_res'[t] = << >>
       /\ ConsumerDecides
             => (Len(mainsearch'.entries) = Len(mainsearch.entries) + 1
                 <=> FileEntries(tree[published[Len(published)]]) # << >>)
      ]_vars

\* the header decision is taken for a file without a match that follows a
\* file with matches
C19_Witness ==
    /\ Len(published) = 2
    /\ FileEntries(tree[published[1]]) # << >>
    /\ FileEntries(tree[published[2]]) = << >>
    /\ nmerged = 1
    /\ save_pc = "lines1"
    /\ save_res = << >>
    /\ Len(mainsearch.entries) = Len(FileEntries(tree[published[1]]))

\* C20: once lookup_thread has set status to 0, no worker thread and no
\* save_thread is left blocked: when no thread of the pipeline can take a
\* step any more, the three of them have returned
C20_PipelineExits ==
    (Running /\ lookup_pc = "done" /\ PipelineAtRest)
        => /\ \A t \in {0, 1} : worker_pc[t] = "exit"
           /\ save_pc = "exit"

(***************************************************************************)
(* SpecSkip: walks with files parse_file gives up on                       *)
(***************************************************************************)
\* the files of SpecSkip: "a\n", an empty file, and a file of "a\n" that
\* open, fstat or mmap fails on
SkipKinds ==
    { [bytes |-> <<97, 10>>, ok |-> TRUE],
      [bytes |-> << >>, ok |-> TRUE],
      [bytes |-> <<97, 10>>, ok |-> FALSE] }

\* entry i of the walk: ./<i>.c
InitSkip ==
    \E k \in UNION {[1..n -> SkipKinds] : n \in 1..MaxFiles} :
        \E isfile \in BOOLEAN :
            /\ isfile => Len(k) = 1
            /\ InitWith([i \in 1..Len(k) |->
                            [name |-> <<46, 47, 48 + i, 46, 99>>,
                             bytes |-> k[i].bytes, ok |-> k[i].ok,
                             symlink |-> FALSE]],
                        isfile, PipePattern, 0, AttrC, 0)

NextSkip ==
    \/ LookupLock \/ LookupRootFile
    \/ ParseFileError \/ ParseFileMap \/ ParseFilePost1
    \/ LookupUnlock \/ LookupDone
    \/ \E tnum \in {0, 1} : Worker(tnum)
    \/ Save
    \/ UiStatusLock \/ UiStatusUnlock \/ UiCheckEmpty

SpecSkip == InitSkip /\ [][NextSkip]_vars

\* this step is parse_file returning -1; parse_file taking the slot
ErrorReturn == lookup_pc = "parse" /\ lookup_pc' = "ret"
SlotTaken == new_file_signal' < new_file_signal

\* C21: parse_file's error return (open, fstat or mmap failed, or size 0)
\* posts no worker semaphore, leaves the root store, the file record and the
\* list of published files as they were and new_file_signal at the value it
\* had, which is 1; only a parse_file that publishes a file takes
\* new_file_signal, so the next file's sem_wait does not wait
C21_SkippedFileReleasesSlot ==
    [][/\ ErrorReturn =>
             /\ is_data_for_worker' = is_data_for_worker
             /\ worker_data_treated' = worker_data_treated
             /\ heap' = heap /\ filep' = filep /\ published' = published
             /\ new_file_signal' = new_file_signal
             /\ new_file_signal' = 1
       /\ SlotTaken => lookup_pc = "parse" /\ lookup_pc' = "post1"
      ]_vars

\* the first file of the walk could not be opened or mapped, and the second
\* is published while save_thread has merged nothing
C21_Witness ==
    /\ Len(tree) = 2
    /\ ~tree[1].ok
    /\ published = <<2>>
    /\ nmerged = 0
    /\ save_pc \in {"check", "wait0"}

(***************************************************************************)
(* The counters of a store (Spec)                                          *)
(***************************************************************************)
\* nbentry counts the entries of s and nb_lines those with a line number
CountersAgree(s) ==
    /\ s.nbentry = Len(s.entries)
    /\ s.nb_lines = Cardinality({i \in 1..Len(s.entries) : IsLine(s.entries[i])})

\* this step appends one entry to the root store
RootAppend == Len(mainsearch'.entries) = Len(mainsearch.entries) + 1

\* C22: in the root store after each append and in every subsearch store
\* once built, nbentry is the number of entries and nb_lines the number of
\* entries whose line number is not 0; an appended header adds one to
\* nbentry only, an appended line one to both; no counter of a store
\* decreases, and the root store only changes by an append
C22_CounterConsistency ==
    [][/\ \A c \in Live : CountersAgree(heap[c])
       /\ \A c \in Live' : CountersAgree(heap'[c])
       /\ \/ mainsearch'.entries = mainsearch.entries
          \/ /\ RootAppend
             /\ SubSeq(mainsearch'.entries, 1, Len(mainsearch.entries))
                    = mainsearch.entries
       /\ RootAppend =>
             /\ mainsearch'.nbentry = mainsearch.nbentry + 1
             /\ mainsearch'.nb_lines = mainsearch.nb_lines +
                    (IF IsHeader(mainsearch'.entries[Len(mainsearch'.entries)])
                     THEN 0 ELSE 1)
       /\ \A c \in Live \cap Live' :
             /\ heap'[c].nbentry >= heap[c].nbentry
             /\ heap'[c].nb_lines >= heap[c].nb_lines
      ]_vars

\* the root store holds a header and three lines, and a subsearch store
\* built from it a header and two lines
C22_Witness ==
    /\ mainsearch.nbentry = 4 /\ mainsearch.nb_lines = 3
    /\ \E c \in Children : heap[c].nbentry = 3 /\ heap[c].nb_lines = 2

(***************************************************************************)
(* SpecMatch: a case-sensitive search for a fixed string in a file of one  *)
(* line, over the bytes 'a', 'b' and 0xC3                                  *)
(***************************************************************************)
MatchBytes == {97, 98, 195}

\* the pattern given on the command line, the line of the file
MatchPatterns == Seqs(MatchBytes, MaxPatLen)
MatchLines == Seqs(MatchBytes, MaxLineLen)

InitMatch ==
    \E line \in MatchLines : \E pat \in MatchPatterns :
        InitWith(MkTree(<<[bytes |-> line \o <<NL>>, ext |-> <<46, 99>>]>>),
                 FALSE, pat, 0, AttrC, 0)

NextMatch ==
    \/ LookupLock \/ ParseFileMap \/ ParseFilePost1 \/ LookupUnlock \/ LookupDone
    \/ \E tnum \in {0, 1} : Worker(tnum)
    \/ Save

SpecMatch == InitMatch /\ [][NextMatch]_vars

\* the line of the file of SpecMatch, without its newline
TheLine == SubSeq(TheFile, 1, Len(TheFile) - 1)

HighBit(c) == c >= 128

\* C23: the matcher main and pre_bmh select for a case-sensitive fixed
\* pattern reports the line if and only if the pattern occurs in it as a
\* contiguous substring, bytes with the high bit set included.  Stated as
\* claimed; bmh steps over every position whose last byte has the high bit
\* set without comparing there.
C23_MatcherCorrect ==
    FileMerged => (HasLine(mainsearch.entries)
                      <=> Contains(TheLine, mainsearch.pattern))

\* C24: pre_bmh selects rabin_karp when a byte of the pattern at any
\* position has the high bit set, else strstr_wrapper when the pattern has
\* one byte, else bmh.  Stated as claimed; pre_bmh does not look at the last
\* byte of the pattern.
C24_MatcherSelection ==
    mainsearch.parser =
        IF \E i \in 1..Len(mainsearch.pattern) : HighBit(mainsearch.pattern[i])
        THEN "rabin_karp"
        ELSE IF Len(mainsearch.pattern) = 1 THEN "strstr_wrapper"
        ELSE "bmh"

(***************************************************************************)
(* C25: once lookup_thread has set the root search's status to 0 (the      *)
(* status bar shows "Done."), the root store gets no further entry, its    *)
(* counters stay as they are and the status stays 0.  Stated as claimed;   *)
(* status is set when the walk returns, while the last published file may  *)
(* still be with the workers or save_thread.                               *)
(***************************************************************************)
C25_DoneIsFinal ==
    [][mainsearch.status = 0 =>
          /\ mainsearch'.status = 0
          /\ mainsearch'.entries = mainsearch.entries
          /\ mainsearch'.nbentry = mainsearch.nbentry
          /\ mainsearch'.nb_lines = mainsearch.nb_lines]_vars

(***************************************************************************)
(* C26: the UI loop leaves with exit(0) on an empty result (status 0 and   *)
(* nbentry 0) only when no published file holds a matching line.  Stated   *)
(* as claimed; status is 0 as soon as the walk has returned, and a file    *)
(* published last can still be with the workers or save_thread then.       *)
(***************************************************************************)
C26_AutoExitOnlyWhenEmpty ==
    (ui_pc = "exited" /\ exit_code = 0)
        => \A n \in 1..Len(published) : FileEntries(tree[published[n]]) = << >>

(***************************************************************************)
(* SpecIso: a root search in regex mode (-e) for "a" in the file "a\nb\n", *)
(* and a subsearch for "b" made and left while the file is scanned         *)
(***************************************************************************)
InitIso ==
    InitWith(MkTree(<<[bytes |-> <<97, 10, 98, 10>>, ext |-> <<46, 99>>]>>),
             FALSE, <<97>>, 1, AttrC, 1)

NextIso ==
    \/ LookupLock \/ ParseFileMap \/ ParseFilePost1 \/ LookupUnlock \/ LookupDone
    \/ \E tnum \in {0, 1} : Worker(tnum)
    \/ Save
    \/ \E junk \in Junk : UiSubsearch(<<98>>, junk)
    \/ UiQuitChild
    \/ UiStatusLock \/ UiStatusUnlock \/ UiCheckEmpty

SpecIso == InitIso /\ [][NextIso]_vars

\* the entries a file gives the root store when each of its lines is
\* matched by the root search's own parser and regex
RootEntries(f) ==
    LET ls == MergedLines(mainsearch, f.bytes)
    IN  IF ls = << >> THEN << >>
        ELSE <<[data |-> Strdup(f.name), line |-> 0]>> \o ls

(***************************************************************************)
(* C27: while the root search scans in regex mode, the lines appended to   *)
(* the root store are those its own regex matches, whatever subsearch is   *)
(* made, shown or left meanwhile.  Stated as claimed; regex() matches with *)
(* current->regex, the regex of the search on display.                     *)
(***************************************************************************)
C27_RootIsolation ==
    Running =>
        IsPrefix(mainsearch.entries,
                 Flatten([n \in 1..Len(published) |-> RootEntries(tree[published[n]])]))

(***************************************************************************)
(* C28: whatever keys among Up, Down, PageUp and PageDown are pressed      *)
(* while save_thread appends, index >= 0, 0 <= cursor <= LINES - 1, and    *)
(* index + cursor is below the number of entries whenever the store on     *)
(* display is not empty.  Stated as claimed; cursor_down and page_down     *)
(* step over a header without looking at the number of entries.            *)
(***************************************************************************)
C28_SelectionInBounds ==
    Running =>
        /\ heap[current].index >= 0
        /\ heap[current].cursor \in 0..(LINES - 1)
        /\ heap[current].nbentry > 0 => Selected < heap[current].nbentry

\* the contexts met from the main search along the child links
RECURSIVE ChainFrom(_, _)
ChainFrom(c, n) ==
    IF c = 0 \/ n = 0 THEN {}
    ELSE {c} \cup ChainFrom(heap[c].child, n - 1)

(***************************************************************************)
(* C29: after any subsearches (accepted, empty or rejected) and q presses, *)
(* the contexts that exist are those of one chain of child links from the  *)
(* main search, the current search is the end of that chain (its child     *)
(* link is NULL), and the child of a context has that context as father.   *)
(* Stated as claimed; subsearch links the child to its father before it    *)
(* compiles the pattern, and leaves the link when the pattern is rejected. *)
(***************************************************************************)
C29_ContextChain ==
    Running =>
        /\ heap[current].child = 0
        /\ current \in ChainFrom(1, Len(heap))
        /\ Live = ChainFrom(1, Len(heap))
        /\ \A c \in Live :
              heap[c].child # 0 => heap[heap[c].child].father = c

(***************************************************************************)
(* SpecLive: SpecSkip under fair scheduling.  Every thread that can take a *)
(* step eventually takes one; lookup_file eventually gets data_mutex, the  *)
(* UI loop sleeping 10 ms between two holds of it.                         *)
(***************************************************************************)
Fairness ==
    /\ SF_vars(LookupLock)
    /\ WF_vars(LookupRootFile \/ ParseFileError \/ ParseFileMap \/ ParseFilePost1
                  \/ LookupUnlock \/ LookupDone)
    /\ \A tnum \in {0, 1} : WF_vars(Worker(tnum))
    /\ WF_vars(Save)
    /\ WF_vars(UiStatusLock \/ UiStatusUnlock \/ UiCheckEmpty)

SpecLive == InitSkip /\ [][NextSkip]_vars /\ Fairness

\* the entries of the walk parse_file maps, in the order of the walk
Mappable == SelectSeq([i \in 1..Len(tree) |-> i], LAMBDA i : ~ParseFails(tree[i]))

\* parse_file's wait for new_file_signal ends, the walker being in
\* lookup_file's synchronized block or not
WalkerGetsSlot == (lookup_pc = "parse") ~> (lookup_pc # "parse")

\* the walk ends with every file that maps published
WalkerFinishes == <>(lookup_pc = "done" /\ published = Mappable)

\* every published file is merged and its slot released
EveryFileMerged ==
    \A n \in 1..MaxFiles : [](Len(published) >= n => <>(nmerged >= n))

\* the UI loop gets data_mutex when it waits for it
UiGetsLock ==
    /\ (ui_pc \in {"loop", "status"}) ~> (ui_pc = "display")
    /\ (ui_pc = "check") ~> (ui_pc # "check")

(***************************************************************************)
(* C30: under fair scheduling parse_file's wait for the slot ends although *)
(* lookup_file holds data_mutex meanwhile, every published file is         *)
(* eventually merged and its slot released, the walker publishes every     *)
(* file that maps and finishes, and the UI loop gets data_mutex whenever   *)
(* it waits for it.  Stated as claimed; the file published last may stay   *)
(* unmerged for ever, status being 0 once the walk has returned.           *)
(***************************************************************************)
C30_NoDeadlock ==
    /\ WalkerGetsSlot
    /\ EveryFileMerged
    /\ WalkerFinishes
    /\ UiGetsLock

(***************************************************************************)
(* Context lifetime: q in a subsearch, in the steps the other threads can  *)
(* run between (main takes no lock in case QUIT), and the exits            *)
(***************************************************************************)
\* case QUIT in a subsearch, first half: tmp = current->father;
\* clean_search(current); current still points to the cleaned context
UiQuitClean ==
    /\ ui_pc = "loop"
    /\ heap[current].father # 0
    /\ heap' = [heap EXCEPT ![current] = Freed]
    /\ ui_pc' = "quit"
    /\ UNCHANGED <<tree, command, argv, optind,
                   root_isfile, mainsearch_attr, current, data_mutex,
                   pipe_vars, exit_code, budget>>

\* case QUIT in a subsearch, second half: current = tmp;
\* current->child = NULL; tmp is the father, the context whose child link
\* is the cleaned one
UiQuitPop ==
    /\ ui_pc = "quit"
    /\ LET tmp == CHOOSE c \in 1..Len(heap) : heap[c].child = current
       IN  /\ current' = tmp
           /\ heap' = [heap EXCEPT ![tmp].child = 0]
    /\ ui_pc' = "status"
    /\ UNCHANGED <<tree, command, argv, optind,
                   root_isfile, mainsearch_attr, data_mutex, pipe_vars,
                   exit_code, budget>>

NextQuit ==
    \/ LookupLock \/ ParseFileMap \/ ParseFilePost1 \/ LookupUnlock \/ LookupDone
    \/ \E tnum \in {0, 1} : Worker(tnum)
    \/ Save
    \/ \E search \in CtxSearches : \E junk \in Junk : UiSubsearch(search, junk)
    \/ UiQuitClean \/ UiQuitPop \/ UiQuitRoot
    \/ UiStatusLock \/ UiStatusUnlock \/ UiCheckEmpty

SpecQuit == InitCtx /\ [][NextQuit]_vars

\* this step is the program's exit: exit_ngp has run clean_all
ExitStep == Running /\ ~Running'

\* this step is the consumer's mainsearch_add_line, which reads
\* current->index
ReadsCurrent == SaveAddLine

(***************************************************************************)
(* C31: every subsearch context is destroyed, by q or at the latest by     *)
(* clean_all at exit, and the consumer never reads, through current, a     *)
(* context that has been destroyed.  Stated as claimed.                    *)
(***************************************************************************)
C31_ContextLifetime ==
    [][/\ ExitStep => \A c \in 2..Len(heap') : heap'[c] = Freed
       /\ ReadsCurrent => heap[current] # Freed]_vars

\* the consumer appends a line while current is a context q has cleaned
C31_ReadAfterClean ==
    [][ReadsCurrent => heap[current] # Freed]_vars

\* the program exits with a subsearch context that was never cleaned
C31_AllCleanedAtExit ==
    [][ExitStep => \A c \in 2..Len(heap') : heap'[c] = Freed]_vars

(***************************************************************************)
(* SpecView: the keys that move the selection, Enter, subsearches and q in *)
(* a subsearch, while the files are merged                                 *)
(***************************************************************************)
NextView ==
    \/ LookupLock \/ ParseFileMap \/ ParseFilePost1 \/ LookupUnlock \/ LookupDone
    \/ \E tnum \in {0, 1} : Worker(tnum)
    \/ Save
    \/ UiCursorDown \/ UiCursorUp \/ UiPageUp \/ UiPageDown \/ UiEnter
    \/ \E junk \in Junk : UiSubsearch(PipePattern, junk)
    \/ UiQuitChild
    \/ UiStatusLock \/ UiStatusUnlock \/ UiCheckEmpty

\* one file, as in SpecCtx
SpecView == InitCtx /\ [][NextView]_vars

\* the contexts above context c of heap h, its father first
RECURSIVE Ancestors(_, _)
Ancestors(h, c) ==
    IF h[c].father = 0 THEN {}
    ELSE {h[c].father} \cup Ancestors(h, h[c].father)

\* the contexts that are a parent during this step: those above the current
\* one, and the current one when the step opens a subsearch on it
Parents == Ancestors(heap, current) \cup (IF SubsearchStep THEN {current} ELSE {})

(***************************************************************************)
(* C32: no step taken while the program runs (opening a subsearch, any key *)
(* inside it, q) changes the viewport index or the cursor of a parent      *)
(* context, or removes or alters an entry of a parent's store: the store   *)
(* before the step is a prefix of the store after it.                      *)
(***************************************************************************)
C32_ParentViewIntact ==
    [][Running' =>
          \A p \in Parents :
              /\ heap'[p].index = heap[p].index
              /\ heap'[p].cursor = heap[p].cursor
              /\ IsPrefix(heap[p].entries, heap'[p].entries)]_vars

\* a subsearch of a subsearch has just been dismissed with q: its father
\* is shown again, and both it and the main search are away from their
\* first entry
C32_Witness ==
    /\ Len(heap) = 3 /\ heap[3] = Freed
    /\ current = 2 /\ ui_pc = "status"
    /\ heap[2].index + heap[2].cursor > 0
    /\ heap[1].index + heap[1].cursor > 0

(***************************************************************************)
(* SpecCap: stores that outgrow their first allocation.  Five files of     *)
(* lines "a", searched for "a": the header of the fifth file lands just    *)
(* below entry 100                                                         *)
(***************************************************************************)
\* lines of the first file, at most; of the three next files; of the last
MaxFirstLines == 22
MidLines == 24
LastLines == 3

\* n lines "a\n"
LinesA(n) == [i \in 1..(2 * n) |-> IF i % 2 = 1 THEN 97 ELSE NL]

CapTrees ==
    { [i \in 1..5 |->
          [bytes |-> LinesA(IF i = 1 THEN n ELSE IF i = 5 THEN LastLines ELSE MidLines),
           ext |-> <<46, 99>>]] :
      n \in (MaxFirstLines - 1)..MaxFirstLines }

InitCap ==
    \E k \in CapTrees : InitWith(MkTree(k), FALSE, PipePattern, 0, AttrC, 1)

\* the threads of the search and the subsearch key
NextCap ==
    \/ LookupLock \/ ParseFileMap \/ ParseFilePost1 \/ LookupUnlock \/ LookupDone
    \/ \E tnum \in {0, 1} : Worker(tnum)
    \/ Save
    \/ \E junk \in Junk : UiSubsearch(PipePattern, junk)

SpecCap == InitCap /\ [][NextCap]_vars

RECURSIVE SubsearchChecked(_, _, _, _, _)
\* the turns lo .. hi - 1 of the for loop of subsearch, as SubsearchTurns,
\* with fits: each of these turns left the child with at most size entries
SubsearchChecked(father, lo, hi, t, junk) ==
    IF hi <= lo THEN [t |-> t, fits |-> TRUE]
    ELSE IF hi = lo + 1
    THEN LET u == SubsearchTurn(father, lo, t.child, t.orphan_file, t.new_data, junk)
         IN  [t |-> u, fits |-> u.child.nbentry <= u.child.size]
    ELSE LET mid == (lo + hi) \div 2
             half == SubsearchChecked(father, lo, mid, t, junk)
         IN  IF half.fits
             THEN SubsearchChecked(father, mid, hi, half.t, junk)
             ELSE half

\* every turn of the loop leaves nbentry <= size: its writes, at the indexes
\* up to nbentry - 1 after the array was grown, were inside the array
SubsearchFits(father, lo, hi, t, junk) ==
    SubsearchChecked(father, lo, hi, t, junk).fits

\* the child as subsearch has it when the loop starts
ChildAtStart ==
    [init_searchstruct(MallocSearch) EXCEPT
        !.father = current,
        !.pattern = heap'[current'].pattern,
        !.regex = heap'[current'].regex]

(***************************************************************************)
(* C33: an append to the root store writes at an index below the capacity  *)
(* check_alloc leaves (100 at first, 500 more each time the entry count    *)
(* has reached it), and every turn of the loop that builds a subsearch     *)
(* store, which grows the array by 100 when the entry count modulo 100 is  *)
(* 98 or 99 and then appends one or two entries, writes below the capacity *)
(***************************************************************************)
C33_CapacitySafety ==
    [][/\ RootAppend =>
            /\ mainsearch.nbentry < mainsearch'.size
            /\ mainsearch'.size =
                  IF mainsearch.nbentry >= mainsearch.size
                  THEN mainsearch.size + MAIN_GROW ELSE mainsearch.size
       /\ SubsearchStep =>
            \A junk \in Junk :
                SubsearchFits(heap[current], 0, heap[current].nbentry,
                              [child |-> ChildAtStart, orphan_file |-> FALSE,
                               new_data |-> << >>], junk)]_vars

\* the root store has outgrown its first array, and a subsearch store was
\* built with more than 100 entries, the header of the second file being
\* its entry 98: header and line were appended in one turn of the loop
C33_Witness ==
    /\ mainsearch.nbentry > INIT_SIZE
    /\ mainsearch.size = INIT_SIZE + MAIN_GROW
    /\ current = 2
    /\ heap[2].nbentry > INIT_SIZE
    /\ heap[2].entries[99].line = 0

=============================================================================

